---- MODULE Spec2Model ----
(***************************************************************************)
(* Streaming core of MyGPT: the code-fence buffering loop of               *)
(* chat_handler.get_ai_response_stream, the provider dispatch of           *)
(* MultiProviderChatHandler, and the relay of routes.stream_response.      *)
(*                                                                         *)
(* Text is modelled as a sequence of one-character strings, so that        *)
(* str.find, slicing and concatenation are computed character by           *)
(* character as Python computes them.                                      *)
(***************************************************************************)
EXTENDS Integers, Sequences, FiniteSets, TLC

VARIABLES
    \* ---- chat_handler.get_ai_response_stream (one StreamSession) ----
    openai_client,   \* chat_handler.openai_client is not None
    pc,              \* position of the generator: start, stream, fallback, done, raised
    response,        \* the chunks the provider has delivered so far, in order
    buffer,          \* the local variable buffer
    yielded,         \* the units yielded to the consumer so far, in order
    \* ---- MultiProviderChatHandler.get_provider_for_model, applied alone ----
    rmodel,          \* the identifier passed in
    rprovider,       \* the value returned, "unset" before the call
    \* ---- one request of routes.stream_response over MultiProviderChatHandler ----
    clients,         \* the providers whose client handle is not None
    model,           \* the model identifier of the request
    opc,             \* idle, selected, streaming, completed, failed, abandoned
    provider,        \* get_provider_for_model(model), "none" before selection
    adapter,         \* the generator returned: a provider, "fallback", or "none"
    deltas,          \* the chunk contents the provider stream has delivered so far
    relayed,         \* response_content of generate: the fragments relayed so far
    stored,          \* contents of the assistant messages committed for the request
    fault,           \* none, create, iter: where a provider call has raised
    completion,      \* value returned by chat_handler.get_ai_response, "unset" before
    actual_model,    \* self.model_mappings.get(model, model), empty before selection
    native,          \* the model argument the adapter was called with, empty if none
    attempts,        \* number of streaming requests made to a provider
    stream_open,     \* a network stream to the provider is open
    events,          \* the events generate has yielded, in order
    nmessages,       \* len(messages) of the chat when the request starts
    title,           \* chat.title as committed
    chat_tags,       \* names of the tags of chat.tags as committed, in order
    \* ---- concurrent stream requests in one process ----
    sh_openai_client, \* chat_handler.openai_client is not None (module global)
    sh_clients,       \* handles of multi_provider_handler that are not None
    s_kind,           \* per request: the entry point called
    s_model,          \* per request: the model identifier
    s_pc,             \* per request: start, stream, fallback, done
    s_adapter,        \* per request: the generator chosen, "none" before
    s_response,       \* per request: chunk contents delivered so far
    s_buffer,         \* per request: the local variable buffer
    s_yielded,        \* per request: the fragments yielded so far
    \* ---- chat_handler.suggest_tags, applied alone ----
    t_client,        \* chat_handler.openai_client is not None
    t_messages,      \* the argument messages
    t_pc,            \* start, done
    t_path,          \* the return statement taken, "none" before
    t_result,        \* the set returned
    \* ---- the request one adapter sends to its provider ----
    q_adapter,       \* the adapter called
    q_messages,      \* the argument messages
    q_pc,            \* start, sent
    q_sent,          \* the request handed to the provider SDK, empty record before
    \* ---- the non-streaming calls of chat_handler, and the model it requests ----
    n_client,        \* chat_handler.openai_client is not None
    n_call,          \* the function called
    n_model,         \* the argument model
    n_messages,      \* the argument messages
    n_pc,            \* start, done, raised
    n_path,          \* the return statement taken, none before
    n_native,        \* the model argument of the provider call, None when no call is made
    n_result,        \* the text returned, None before
    \* ---- concurrent stream completions adding the suggested tag (routes.py 309-320) ----
    d_chat,          \* per completion: the chat it belongs to
    d_pc,            \* per completion: query, append, commit, done, failed
    d_found,         \* per completion: tag, the id the query returned (0: none, a new Tag is added); linked, chat.tags held it when loaded
    d_tags,          \* ids of the committed Tag rows with the suggested name
    d_links          \* committed rows of chat_tags: pairs of chat id and tag id

vars == << openai_client, pc, response, buffer, yielded, rmodel, rprovider,
           clients, model, opc, provider, adapter, deltas, relayed, stored,
           fault, completion, actual_model, native, attempts, stream_open, events,
           nmessages, title, chat_tags,
           sh_openai_client, sh_clients, s_kind, s_model, s_pc, s_adapter,
           s_response, s_buffer, s_yielded,
           t_client, t_messages, t_pc, t_path, t_result,
           q_adapter, q_messages, q_pc, q_sent,
           n_client, n_call, n_model, n_messages, n_pc, n_path, n_native, n_result,
           d_chat, d_pc, d_found, d_tags, d_links >>

filterVars == << openai_client, pc, response, buffer, yielded >>
registryVars == << rmodel, rprovider >>
orchVars == << clients, model, opc, provider, adapter, deltas, relayed, stored,
               fault, completion, actual_model, native, attempts, stream_open, events,
               nmessages, title, chat_tags >>
concVars == << sh_openai_client, sh_clients, s_kind, s_model, s_pc, s_adapter,
               s_response, s_buffer, s_yielded >>
tagVars == << t_client, t_messages, t_pc, t_path, t_result >>
reqVars == << q_adapter, q_messages, q_pc, q_sent >>
chatVars == << n_client, n_call, n_model, n_messages, n_pc, n_path, n_native, n_result >>
dbVars == << d_chat, d_pc, d_found, d_tags, d_links >>

(***************************************************************************)
(* Bounds                                                                  *)
(***************************************************************************)
MaxChunkLen == 3     \* longest enumerated provider chunk
MaxChunks == 2       \* number of chunks a provider stream delivers at most
MaxPieces == 2       \* number of pieces an enumerated model identifier is built from
MaxDeltas == 2       \* number of chunks a provider delivers to the multi-provider adapters at most

(***************************************************************************)
(* Text helpers                                                            *)
(***************************************************************************)
\* the backtick character; a string of this notation cannot hold a backtick,
\* so the apostrophe stands for it (no modelled text contains an apostrophe)
BT == "'"

\* the three characters searched for by buffer.find of the triple backtick
Marker == << BT, BT, BT >>

\* all sequences over S of length 0..n
RECURSIVE SeqsUpTo(_, _)
SeqsUpTo(S, n) ==
    IF n = 0 THEN { << >> }
    ELSE LET shorter == SeqsUpTo(S, n - 1)
         IN  shorter \cup { Append(s, x) : s \in shorter, x \in S }

\* str.join of the empty string over parts
RECURSIVE Join(_)
Join(parts) ==
    IF parts = << >> THEN << >> ELSE Head(parts) \o Join(Tail(parts))

\* s[i:j] of Python (0-based, end exclusive), for 0 <= i <= j <= len(s)
Slice(s, i, j) == SubSeq(s, i + 1, j)

\* Python's  sub in s / s.find(sub, from): 0-based index of the first
\* occurrence of sub in s at or after from, -1 when there is none
OccursAt(s, sub, i) ==
    /\ i >= 0
    /\ i + Len(sub) <= Len(s)
    /\ Slice(s, i, i + Len(sub)) = sub

Find(s, sub, from) ==
    LET hits == { i \in from .. (Len(s) - Len(sub)) : OccursAt(s, sub, i) }
    IN  IF hits = {} THEN -1
        ELSE CHOOSE i \in hits : \A j \in hits : i <= j

Contains(s, sub) == Find(s, sub, 0) # -1

(***************************************************************************)
(* chat_handler.py                                                         *)
(***************************************************************************)
\* fallback_message of chat_handler.get_ai_response_stream
ChatFallbackMessage == <<
    "I", " ", "a", "p", "o", "l", "o", "g", "i", "z", "e", ",", " ", "b",
    "u", "t", " ", "t", "h", "e", " ", "A", "I", " ", "s", "e", "r", "v",
    "i", "c", "e", " ", "i", "s", " ", "c", "u", "r", "r", "e", "n", "t",
    "l", "y", " ", "u", "n", "a", "v", "a", "i", "l", "a", "b", "l", "e",
    ".", " ", "P", "l", "e", "a", "s", "e", " ", "c", "h", "e", "c", "k",
    " ", "y", "o", "u", "r", " ", "O", "p", "e", "n", "A", "I", " ", "A",
    "P", "I", " ", "k", "e", "y", " ", "a", "n", "d", " ", "t", "r", "y",
    " ", "a", "g", "a", "i", "n", " ", "l", "a", "t", "e", "r", "." >>

\* FenceLoop with the slip of yielding the buffer when the fence found is not
\* closed yet
RECURSIVE FenceLoopNoHold(_, _)
FenceLoopNoHold(buf, out) ==
    LET start == Find(buf, Marker, 0) IN
    IF start = -1
    THEN [ buffer |-> << >>, yielded |-> Append(out, buf) ]
    ELSE LET end == Find(buf, Marker, start + 3) IN
         IF end = -1
         THEN [ buffer |-> << >>, yielded |-> Append(out, buf) ]
         ELSE FenceLoopNoHold(Slice(buf, end + 3, Len(buf)),
                        (IF start > 0 THEN Append(out, Slice(buf, 0, start)) ELSE out)
                            \o << Slice(buf, start, end + 3) >>)

\* The  while True  loop run on the buffer after a chunk was appended:
\* returns the buffer left over and the units yielded, in order.
RECURSIVE FenceLoop(_, _)
FenceLoop(buf, out) ==
    LET start == Find(buf, Marker, 0) IN
    IF start = -1
    THEN [ buffer |-> << >>, yielded |-> Append(out, buf) ]
    ELSE LET end == Find(buf, Marker, start + 3) IN
         IF end = -1
         THEN [ buffer |-> buf, yielded |-> out ]
         ELSE FenceLoop(Slice(buf, end + 3, Len(buf)),
                        (IF start > 0 THEN Append(out, Slice(buf, 0, start)) ELSE out)
                            \o << Slice(buf, start, end + 3) >>)

Alphabet == { "a", BT }

\* the chunks of the documented example: abc, marker, py and then code, marker, def
ExampleChunk1 == << "a", "b", "c", BT, BT, BT, "p", "y" >>
ExampleChunk2 == << "c", "o", "d", "e", BT, BT, BT, "d", "e", "f" >>

\* a chunk that closes one fence and opens the next: x, marker, b, marker, c
ExampleChunk3 == << "x", BT, BT, BT, "b", BT, BT, BT, "c" >>

\* delta.content of the chunks a provider may deliver (the empty text included)
Chunks == SeqsUpTo(Alphabet, MaxChunkLen) \cup { ExampleChunk1, ExampleChunk2, ExampleChunk3 }

\* lines 28-33 and 36-71: the call either takes the fallback path or
\* creates the streaming request and starts with an empty buffer
StartStream ==
    /\ pc = "start"
    /\ pc' = IF openai_client THEN "stream" ELSE "fallback"
    /\ UNCHANGED << openai_client, response, buffer, yielded >>
    /\ UNCHANGED << registryVars, orchVars, concVars, tagVars, reqVars, chatVars, dbVars >>

\* lines 31-32: one character of the fallback message per yield
YieldFallbackChar ==
    /\ pc = "fallback"
    /\ Len(yielded) < Len(ChatFallbackMessage)
    /\ yielded' = Append(yielded, << ChatFallbackMessage[Len(yielded) + 1] >>)
    /\ UNCHANGED << openai_client, pc, response, buffer >>
    /\ UNCHANGED << registryVars, orchVars, concVars, tagVars, reqVars, chatVars, dbVars >>

\* line 33: return after the last character
FallbackReturn ==
    /\ pc = "fallback"
    /\ Len(yielded) = Len(ChatFallbackMessage)
    /\ pc' = "done"
    /\ UNCHANGED << openai_client, response, buffer, yielded >>
    /\ UNCHANGED << registryVars, orchVars, concVars, tagVars, reqVars, chatVars, dbVars >>

\* FeedChunk with the slip of keeping a one-character chunk in the buffer
\* without running the loop on it
FeedChunkHoldsShort(buf, content) ==
    IF content # << >> /\ content # << "None" >>
    THEN (IF Len(content) > 1
          THEN FenceLoop(buf \o content, << >>)
          ELSE [ buffer |-> buf \o content, yielded |-> << >> ])
    ELSE [ buffer |-> buf, yielded |-> << >> ]

\* lines 74-105: the body of the for loop run on one chunk; a chunk whose
\* content is None or empty is skipped
FeedChunk(buf, content) ==
    IF content # << >> /\ content # << "None" >>
    THEN FenceLoop(buf \o content, << >>)
    ELSE [ buffer |-> buf, yielded |-> << >> ]

\* lines 71-105 run on a whole list of chunk contents: the buffer left over
\* and the units yielded
RECURSIVE FilterStream(_)
FilterStream(cs) ==
    IF cs = << >>
    THEN [ buffer |-> << >>, yielded |-> << >> ]
    ELSE LET prev == FilterStream(SubSeq(cs, 1, Len(cs) - 1))
             r == FeedChunk(prev.buffer, cs[Len(cs)])
         IN  [ buffer |-> r.buffer, yielded |-> prev.yielded \o r.yielded ]

\* ProcessChunk with the slip of yielding whatever the loop left in the
\* buffer at the end of the iteration
ProcessChunkFlushes(content) ==
    /\ pc = "stream"
    /\ Len(response) < MaxChunks
    /\ response' = Append(response, content)
    /\ LET r == FeedChunk(buffer, content)
       IN  /\ buffer' = << >>
           /\ yielded' = yielded \o r.yielded
                             \o (IF r.buffer # << >> THEN << r.buffer >> ELSE << >>)
    /\ UNCHANGED << openai_client, pc >>
    /\ UNCHANGED << registryVars, orchVars, concVars, tagVars, reqVars, chatVars, dbVars >>

\* lines 73-105: one iteration of  for chunk in response
ProcessChunk(content) ==
    /\ pc = "stream"
    /\ Len(response) < MaxChunks
    /\ response' = Append(response, content)
    /\ LET r == FeedChunk(buffer, content)
       IN  /\ buffer' = r.buffer
           /\ yielded' = yielded \o r.yielded
    /\ UNCHANGED << openai_client, pc >>
    /\ UNCHANGED << registryVars, orchVars, concVars, tagVars, reqVars, chatVars, dbVars >>

\* line 73 on exhaustion: the for loop ends and the generator returns
EndOfStream ==
    /\ pc = "stream"
    /\ pc' = "done"
    /\ UNCHANGED << openai_client, response, buffer, yielded >>
    /\ UNCHANGED << registryVars, orchVars, concVars, tagVars, reqVars, chatVars, dbVars >>

\* line 73: the provider iterator raises; nothing in the generator catches it
ProviderRaises ==
    /\ pc = "stream"
    /\ pc' = "raised"
    /\ UNCHANGED << openai_client, response, buffer, yielded >>
    /\ UNCHANGED << registryVars, orchVars, concVars, tagVars, reqVars, chatVars, dbVars >>

(***************************************************************************)
(* multi_provider_chat_handler.py: model registry                          *)
(***************************************************************************)
\* get_provider_for_model with the slip of testing claude before gpt and o3
get_provider_claude_first(m) ==
    IF Contains(m, << "c", "l", "a", "u", "d", "e" >>)
    THEN "anthropic"
    ELSE IF Contains(m, << "g", "p", "t" >>) \/ Contains(m, << "o", "3" >>)
    THEN "openai"
    ELSE IF Contains(m, << "g", "e", "m", "i", "n", "i" >>)
    THEN "google"
    ELSE IF \/ Contains(m, << "m", "i", "s", "t", "r", "a", "l" >>)
            \/ Contains(m, << "p", "i", "x", "t", "r", "a", "l" >>)
            \/ Contains(m, << "c", "o", "d", "e", "s", "t", "r", "a", "l" >>)
    THEN "mistral"
    ELSE "openai"

\* get_provider_for_model with the slip of leaving o3 out of the first rule
get_provider_without_o3(m) ==
    IF Contains(m, << "g", "p", "t" >>)
    THEN "openai"
    ELSE IF Contains(m, << "c", "l", "a", "u", "d", "e" >>)
    THEN "anthropic"
    ELSE IF Contains(m, << "g", "e", "m", "i", "n", "i" >>)
    THEN "google"
    ELSE IF \/ Contains(m, << "m", "i", "s", "t", "r", "a", "l" >>)
            \/ Contains(m, << "p", "i", "x", "t", "r", "a", "l" >>)
            \/ Contains(m, << "c", "o", "d", "e", "s", "t", "r", "a", "l" >>)
    THEN "mistral"
    ELSE "openai"

\* lines 86-97
get_provider_for_model(m) ==
    IF Contains(m, << "g", "p", "t" >>) \/ Contains(m, << "o", "3" >>)
    THEN "openai"
    ELSE IF Contains(m, << "c", "l", "a", "u", "d", "e" >>)
    THEN "anthropic"
    ELSE IF Contains(m, << "g", "e", "m", "i", "n", "i" >>)
    THEN "google"
    ELSE IF \/ Contains(m, << "m", "i", "s", "t", "r", "a", "l" >>)
            \/ Contains(m, << "p", "i", "x", "t", "r", "a", "l" >>)
            \/ Contains(m, << "c", "o", "d", "e", "s", "t", "r", "a", "l" >>)
    THEN "mistral"
    ELSE "openai"

\* pieces the enumerated identifiers are concatenated from
Pieces ==
    { << "g", "p", "t" >>, << "o", "3" >>, << "o" >>, << "3" >>, << "-" >>,
      << "c", "l", "a", "u", "d", "e" >>, << "g", "e", "m", "i", "n", "i" >>,
      << "m", "i", "s", "t", "r", "a", "l" >>, << "p", "i", "x", "t", "r", "a", "l" >>,
      << "c", "o", "d", "e", "s", "t", "r", "a", "l" >>, << "x", "y", "z" >> }

ModelIds == { Join(ps) : ps \in SeqsUpTo(Pieces, MaxPieces) }

ResolveProvider ==
    /\ rprovider = "unset"
    /\ rprovider' = get_provider_for_model(rmodel)
    /\ UNCHANGED rmodel
    /\ UNCHANGED << filterVars, orchVars, concVars, tagVars, reqVars, chatVars, dbVars >>

(***************************************************************************)
(* multi_provider_chat_handler.py: dispatch and adapters; routes.py: relay *)
(***************************************************************************)
Providers == { "openai", "anthropic", "google", "mistral" }

\* fallback_message of MultiProviderChatHandler._get_fallback_response
FallbackMessage == <<
    "I", " ", "a", "p", "o", "l", "o", "g", "i", "z", "e", ",", " ", "b",
    "u", "t", " ", "t", "h", "e", " ", "A", "I", " ", "s", "e", "r", "v",
    "i", "c", "e", " ", "i", "s", " ", "c", "u", "r", "r", "e", "n", "t",
    "l", "y", " ", "u", "n", "a", "v", "a", "i", "l", "a", "b", "l", "e",
    ".", " ", "P", "l", "e", "a", "s", "e", " ", "c", "h", "e", "c", "k",
    " ", "y", "o", "u", "r", " ", "A", "P", "I", " ", "k", "e", "y", "s",
    " ", "a", "n", "d", " ", "t", "r", "y", " ", "a", "g", "a", "i", "n",
    " ", "l", "a", "t", "e", "r", "." >>

\* return values of chat_handler.get_ai_response
UnavailableText == "AI service is currently unavailable. Please check your API keys."
ErrorText == "Error generating response. Please try again."

\* the model identifiers and native model names of the source, as character
\* sequences (S_ followed by the name, with _ for - and .)
S_gpt_5 == << "g", "p", "t", "-", "5" >>
S_gpt_4o == << "g", "p", "t", "-", "4", "o" >>
S_gpt_4o_mini == << "g", "p", "t", "-", "4", "o", "-", "m", "i", "n", "i" >>
S_claude_3_5_sonnet_20241022 == << "c", "l", "a", "u", "d", "e", "-", "3", "-", "5", "-", "s", "o", "n", "n", "e", "t", "-", "2", "0", "2", "4", "1", "0", "2", "2" >>
S_claude_sonnet_4 == << "c", "l", "a", "u", "d", "e", "-", "s", "o", "n", "n", "e", "t", "-", "4" >>
S_claude_3_5_haiku_20241022 == << "c", "l", "a", "u", "d", "e", "-", "3", "-", "5", "-", "h", "a", "i", "k", "u", "-", "2", "0", "2", "4", "1", "0", "2", "2" >>
S_gemini_2_5_pro == << "g", "e", "m", "i", "n", "i", "-", "2", ".", "5", "-", "p", "r", "o" >>
S_gemini_1_5_pro == << "g", "e", "m", "i", "n", "i", "-", "1", ".", "5", "-", "p", "r", "o" >>
S_gemini_1_5_flash == << "g", "e", "m", "i", "n", "i", "-", "1", ".", "5", "-", "f", "l", "a", "s", "h" >>
S_mistral_large_24_11 == << "m", "i", "s", "t", "r", "a", "l", "-", "l", "a", "r", "g", "e", "-", "2", "4", ".", "1", "1" >>
S_mistral_large_latest == << "m", "i", "s", "t", "r", "a", "l", "-", "l", "a", "r", "g", "e", "-", "l", "a", "t", "e", "s", "t" >>
S_pixtral_large_2411 == << "p", "i", "x", "t", "r", "a", "l", "-", "l", "a", "r", "g", "e", "-", "2", "4", "1", "1" >>
S_codestral_25_01 == << "c", "o", "d", "e", "s", "t", "r", "a", "l", "-", "2", "5", ".", "0", "1" >>
S_codestral_latest == << "c", "o", "d", "e", "s", "t", "r", "a", "l", "-", "l", "a", "t", "e", "s", "t" >>
S_mistral_small_3_1 == << "m", "i", "s", "t", "r", "a", "l", "-", "s", "m", "a", "l", "l", "-", "3", ".", "1" >>
S_mistral_small_latest == << "m", "i", "s", "t", "r", "a", "l", "-", "s", "m", "a", "l", "l", "-", "l", "a", "t", "e", "s", "t" >>
S_unknown_xyz == << "u", "n", "k", "n", "o", "w", "n", "-", "x", "y", "z" >>
S_gemini_pro == << "g", "e", "m", "i", "n", "i", "-", "p", "r", "o" >>

\* self.model_mappings, lines 55-84
model_mappings ==
    (S_gpt_5 :> S_gpt_4o)
    @@ (<< "g", "p", "t", "-", "4", ".", "1" >> :> S_gpt_4o)
    @@ (<< "o", "3" >> :> S_gpt_4o)
    @@ (<< "o", "3", "-", "m", "i", "n", "i" >> :> S_gpt_4o_mini)
    @@ (S_gpt_4o :> S_gpt_4o)
    @@ (S_gpt_4o_mini :> S_gpt_4o_mini)
    @@ (<< "g", "p", "t", "-", "r", "e", "a", "l", "t", "i", "m", "e" >> :> S_gpt_4o)
    @@ (<< "c", "l", "a", "u", "d", "e", "-", "o", "p", "u", "s", "-", "4", ".", "1" >> :> S_claude_3_5_sonnet_20241022)
    @@ (S_claude_sonnet_4 :> S_claude_3_5_sonnet_20241022)
    @@ (<< "c", "l", "a", "u", "d", "e", "-", "3", ".", "7", "-", "s", "o", "n", "n", "e", "t" >> :> S_claude_3_5_sonnet_20241022)
    @@ (S_claude_3_5_sonnet_20241022 :> S_claude_3_5_sonnet_20241022)
    @@ (S_claude_3_5_haiku_20241022 :> S_claude_3_5_haiku_20241022)
    @@ (S_gemini_2_5_pro :> S_gemini_1_5_pro)
    @@ (<< "g", "e", "m", "i", "n", "i", "-", "2", ".", "5", "-", "f", "l", "a", "s", "h" >> :> S_gemini_1_5_flash)
    @@ (<< "g", "e", "m", "i", "n", "i", "-", "2", ".", "0", "-", "f", "l", "a", "s", "h" >> :> S_gemini_1_5_flash)
    @@ (S_gemini_1_5_pro :> S_gemini_1_5_pro)
    @@ (S_gemini_1_5_flash :> S_gemini_1_5_flash)
    @@ (S_mistral_large_24_11 :> S_mistral_large_latest)
    @@ (S_pixtral_large_2411 :> S_mistral_large_latest)
    @@ (S_codestral_25_01 :> S_codestral_latest)
    @@ (S_mistral_small_3_1 :> S_mistral_small_latest)

\* self.model_mappings.get(model, model) with the slip of the single-provider
\* handler: an identifier that is not in the table becomes gpt-4o
MappedModelDefaultGpt4o(m) ==
    IF m \in DOMAIN model_mappings THEN model_mappings[m] ELSE S_gpt_4o

\* line 102: self.model_mappings.get(model, model)
MappedModel(m) ==
    IF m \in DOMAIN model_mappings THEN model_mappings[m] ELSE m

\* identifiers a request may carry
OrchModels ==
    { S_gpt_4o, S_claude_sonnet_4, S_gemini_2_5_pro, S_pixtral_large_2411,
      S_unknown_xyz, S_gemini_pro }

\* the text [DONE]
DoneText == << "[", "D", "O", "N", "E", "]" >>

\* the event generate yields for a fragment (routes.py line 300)
DataEvent(content) == << "d", "a", "t", "a", ":", " " >> \o content \o << "\n", "\n" >>

\* the final event of generate (routes.py line 321)
DoneEvent == << "d", "a", "t", "a", ":", " ", "[", "D", "O", "N", "E", "]", "\n", "\n" >>

\* a chunk whose content is None (no text is a sequence holding this token)
NoneContent == << "None" >>

\* contents of the chunks a provider stream may deliver
ChunkContents == { NoneContent, << >>, << "a" >>, Marker, DoneText }

\* the if chain of get_ai_response_stream with the slip of not testing the
\* OpenAI handle before falling back to the OpenAI adapter
DispatchUnguarded(p, cl) ==
    IF p \in cl THEN p ELSE "openai"

\* lines 104-119: the generator get_ai_response_stream returns for provider p
\* when the handles in cl are present.  Calling a generator function runs
\* none of its body, so nothing in the try block can raise and the except
\* branch of lines 120-126 is never entered.
Dispatch(p, cl) ==
    IF p = "openai" /\ "openai" \in cl THEN "openai"
    ELSE IF p = "anthropic" /\ "anthropic" \in cl THEN "anthropic"
    ELSE IF p = "google" /\ "google" \in cl THEN "google"
    ELSE IF p = "mistral" /\ "mistral" \in cl THEN "mistral"
    ELSE IF "openai" \in cl THEN "openai"
    ELSE "fallback"

\* whether adapter a yields a chunk of content c (lines 158, 179-180, 206, 221-223)
AdapterYields(a, c) ==
    CASE a = "openai" -> c # NoneContent
      [] a = "anthropic" -> TRUE
      [] OTHER -> c # NoneContent /\ c # << >>

\* what the provider of adapter a can deliver: text_stream of the Anthropic
\* SDK carries text only
ContentsOf(a) ==
    IF a = "anthropic" THEN ChunkContents \ { NoneContent } ELSE ChunkContents

\* DispatchModel with the slip of handing the mapped model to the OpenAI
\* adapter taken in the else branch
DispatchModelKeepsMapped(p, cl, actual) ==
    IF p \in cl \/ "openai" \in cl THEN actual ELSE << >>

\* the model argument of the call made in lines 104-119: the mapped model
\* for the adapter of the resolved provider, gpt-4o for the OpenAI adapter
\* taken in the else branch, none (empty) for the fallback generator
DispatchModel(p, cl, actual) ==
    IF p \in cl THEN actual
    ELSE IF "openai" \in cl THEN S_gpt_4o
    ELSE << >>

\* results generate_chat_summary can return (chat_handler.py 132-169): the
\* text of the provider or New Chat, and the title cut from the first user
\* message when the handle is absent or the call raises
Summaries(cl) ==
    IF "openai" \in cl
    THEN { "provider summary", "New Chat", "first user message" }
    ELSE { "first user message" }

\* tag names suggest_tags can return for the request (chat_handler.py 172-242),
\* in the order generate appends them
SuggestedTags == { << "general" >>, << "python", "coding" >> }

\* routes.py line 298 calling multi_provider_chat_handler lines 235-236, 99-126
SelectAdapter ==
    /\ opc = "idle"
    /\ provider' = get_provider_for_model(model)
    /\ actual_model' = MappedModel(model)
    /\ adapter' = Dispatch(get_provider_for_model(model), clients)
    /\ native' = DispatchModel(get_provider_for_model(model), clients, MappedModel(model))
    /\ opc' = "selected"
    /\ UNCHANGED << clients, model, deltas, relayed, stored, fault, completion,
                    attempts, stream_open, events, nmessages, title, chat_tags >>
    /\ UNCHANGED << filterVars, registryVars, concVars, tagVars, reqVars, chatVars, dbVars >>

\* first next() on the generator: the body runs up to its loop; for a provider
\* adapter the streaming request is created (lines 151-155, 173-178,
\* 185-203, 214-218)
OpenStream ==
    /\ opc = "selected"
    /\ opc' = "streaming"
    /\ attempts' = IF adapter \in Providers THEN attempts + 1 ELSE attempts
    /\ stream_open' = (adapter \in Providers)
    /\ UNCHANGED << clients, model, provider, adapter, deltas, relayed, stored,
                    fault, completion, actual_model, native, events, nmessages,
                    title, chat_tags >>
    /\ UNCHANGED << filterVars, registryVars, concVars, tagVars, reqVars, chatVars, dbVars >>

\* CreateRaises with the slip of swallowing the exception, so that generate
\* goes on to store an empty message and to yield the final event
CreateRaisesCompletes ==
    /\ opc = "selected"
    /\ adapter \in Providers
    /\ opc' = "completed"
    /\ fault' = "create"
    /\ attempts' = attempts + 1
    /\ stored' = Append(stored, Join(relayed))
    /\ events' = Append(events, DoneEvent)
    /\ UNCHANGED << clients, model, provider, adapter, deltas, relayed,
                    completion, actual_model, native, stream_open,
                    nmessages, title, chat_tags >>
    /\ UNCHANGED << filterVars, registryVars, concVars, tagVars, reqVars, chatVars, dbVars >>

\* creating the streaming request raises: the exception leaves the generator,
\* and generate (routes.py 296-321) has no handler for it
CreateRaises ==
    /\ opc = "selected"
    /\ adapter \in Providers
    /\ opc' = "failed"
    /\ fault' = "create"
    /\ attempts' = attempts + 1
    /\ UNCHANGED << clients, model, provider, adapter, deltas, relayed, stored,
                    completion, actual_model, native, stream_open, events,
                    nmessages, title, chat_tags >>
    /\ UNCHANGED << filterVars, registryVars, concVars, tagVars, reqVars, chatVars, dbVars >>

\* ProviderChunk with the slip of putting the new fragment in front of the
\* ones relayed before
ProviderChunkPrepends(c) ==
    /\ opc = "streaming"
    /\ adapter \in Providers
    /\ c \in ContentsOf(adapter)
    /\ Len(deltas) < MaxDeltas
    /\ deltas' = Append(deltas, c)
    /\ IF AdapterYields(adapter, c)
       THEN /\ relayed' = << c >> \o relayed
            /\ events' = << DataEvent(c) >> \o events
       ELSE UNCHANGED << relayed, events >>
    /\ UNCHANGED << clients, model, opc, provider, adapter, stored, fault, completion,
                    actual_model, native, attempts, stream_open, nmessages, title,
                    chat_tags >>
    /\ UNCHANGED << filterVars, registryVars, concVars, tagVars, reqVars, chatVars, dbVars >>

\* one chunk of the provider stream: the adapter yields its content or skips
\* it, and generate appends what was yielded and relays it (routes.py 298-300)
ProviderChunk(c) ==
    /\ opc = "streaming"
    /\ adapter \in Providers
    /\ c \in ContentsOf(adapter)
    /\ Len(deltas) < MaxDeltas
    /\ deltas' = Append(deltas, c)
    /\ IF AdapterYields(adapter, c)
       THEN /\ relayed' = Append(relayed, c)
            /\ events' = Append(events, DataEvent(c))
       ELSE UNCHANGED << relayed, events >>
    /\ UNCHANGED << clients, model, opc, provider, adapter, stored, fault, completion,
                    actual_model, native, attempts, stream_open, nmessages, title,
                    chat_tags >>
    /\ UNCHANGED << filterVars, registryVars, concVars, tagVars, reqVars, chatVars, dbVars >>

\* what becomes of the provider stream when the adapter generator is left
\* before exhaustion: the with statement of lines 173-180 closes the Anthropic
\* stream; the other adapters hold the stream in a local variable and have no
\* close, with or finally, so the stream is closed only if the SDK object
\* happens to be finalised
StreamLeftOpen(a) ==
    IF a = "anthropic" THEN { FALSE } ELSE BOOLEAN

\* ProviderFails with the slip of making the request again after a failure
ProviderFailsRetries ==
    /\ opc = "streaming"
    /\ adapter \in Providers
    /\ opc' = IF attempts < 2 THEN "selected" ELSE "failed"
    /\ fault' = "iter"
    /\ stream_open' \in StreamLeftOpen(adapter)
    /\ UNCHANGED << clients, model, provider, adapter, deltas, relayed, stored,
                    completion, actual_model, native, attempts, events, nmessages,
                    title, chat_tags >>
    /\ UNCHANGED << filterVars, registryVars, concVars, tagVars, reqVars, chatVars, dbVars >>

\* the provider iterator raises while being iterated: no handler in the
\* adapter, in get_ai_response_stream (already returned) or in generate
ProviderFails ==
    /\ opc = "streaming"
    /\ adapter \in Providers
    /\ opc' = "failed"
    /\ fault' = "iter"
    /\ stream_open' \in StreamLeftOpen(adapter)
    /\ UNCHANGED << clients, model, provider, adapter, deltas, relayed, stored,
                    completion, actual_model, native, attempts, events, nmessages,
                    title, chat_tags >>
    /\ UNCHANGED << filterVars, registryVars, concVars, tagVars, reqVars, chatVars, dbVars >>

\* _get_fallback_response with the slip of starting at the second character
FallbackYieldSkipsFirst ==
    /\ opc = "streaming"
    /\ adapter = "fallback"
    /\ Len(relayed) + 1 < Len(FallbackMessage)
    /\ relayed' = Append(relayed, << FallbackMessage[Len(relayed) + 2] >>)
    /\ events' = Append(events, DataEvent(<< FallbackMessage[Len(relayed) + 2] >>))
    /\ UNCHANGED << clients, model, opc, provider, adapter, deltas, stored, fault,
                    completion, actual_model, native, attempts, stream_open,
                    nmessages, title, chat_tags >>
    /\ UNCHANGED << filterVars, registryVars, concVars, tagVars, reqVars, chatVars, dbVars >>

\* lines 227-229: the next character of the fallback message, relayed by generate
FallbackYield ==
    /\ opc = "streaming"
    /\ adapter = "fallback"
    /\ Len(relayed) < Len(FallbackMessage)
    /\ relayed' = Append(relayed, << FallbackMessage[Len(relayed) + 1] >>)
    /\ events' = Append(events, DataEvent(<< FallbackMessage[Len(relayed) + 1] >>))
    /\ UNCHANGED << clients, model, opc, provider, adapter, deltas, stored, fault,
                    completion, actual_model, native, attempts, stream_open,
                    nmessages, title, chat_tags >>
    /\ UNCHANGED << filterVars, registryVars, concVars, tagVars, reqVars, chatVars, dbVars >>

\* StreamExhausted with the slip of yielding the final event before the
\* message is added and committed
StreamExhaustedDoneFirst ==
    /\ opc = "streaming"
    /\ adapter = "fallback" => Len(relayed) >= Len(FallbackMessage)
    /\ opc' = "completed"
    /\ events' = Append(events, DoneEvent)
    /\ stream_open' = FALSE
    /\ UNCHANGED << clients, model, provider, adapter, deltas, relayed, fault, stored,
                    completion, actual_model, native, attempts, nmessages, title,
                    chat_tags >>
    /\ UNCHANGED << filterVars, registryVars, concVars, tagVars, reqVars, chatVars, dbVars >>

\* the generator is exhausted: generate joins the fragments, adds the
\* assistant message, sets title and tags for a first exchange, commits and
\* yields the final event (routes.py 302-321)
StreamExhausted ==
    /\ opc = "streaming"
    /\ adapter = "fallback" => Len(relayed) >= Len(FallbackMessage)
    /\ opc' = "completed"
    /\ stored' = Append(stored, Join(relayed))
    /\ IF nmessages <= 1
       THEN /\ title' \in Summaries(clients)
            /\ \E ts \in SuggestedTags : chat_tags' = chat_tags \o ts
       ELSE UNCHANGED << title, chat_tags >>
    /\ events' = Append(events, DoneEvent)
    /\ stream_open' = FALSE
    /\ UNCHANGED << clients, model, provider, adapter, deltas, relayed, fault,
                    completion, actual_model, native, attempts, nmessages >>
    /\ UNCHANGED << filterVars, registryVars, concVars, tagVars, reqVars, chatVars, dbVars >>

\* ConsumerAbandons with the slip of storing what was relayed so far when the
\* generator is closed
ConsumerAbandonsPersists ==
    /\ opc = "streaming"
    /\ Len(relayed) > 0
    /\ opc' = "abandoned"
    /\ stored' = Append(stored, Join(relayed))
    /\ stream_open' \in (IF adapter = "fallback" THEN { FALSE } ELSE StreamLeftOpen(adapter))
    /\ UNCHANGED << clients, model, provider, adapter, deltas, relayed, fault,
                    completion, actual_model, native, attempts, events, nmessages,
                    title, chat_tags >>
    /\ UNCHANGED << filterVars, registryVars, concVars, tagVars, reqVars, chatVars, dbVars >>

\* the consumer goes away while generate is suspended at the yield of line
\* 300: the generator is closed there, nothing after the loop runs
ConsumerAbandons ==
    /\ opc = "streaming"
    /\ Len(relayed) > 0
    /\ opc' = "abandoned"
    /\ stream_open' \in (IF adapter = "fallback" THEN { FALSE } ELSE StreamLeftOpen(adapter))
    /\ UNCHANGED << clients, model, provider, adapter, deltas, relayed, stored, fault,
                    completion, actual_model, native, attempts, events, nmessages,
                    title, chat_tags >>
    /\ UNCHANGED << filterVars, registryVars, concVars, tagVars, reqVars, chatVars, dbVars >>

\* chat_handler.get_ai_response, lines 108-129; chat_handler reads the same
\* OPENAI_API_KEY, so its handle is present exactly when the OpenAI one is
get_ai_response ==
    /\ completion = "unset"
    /\ IF "openai" \notin clients
       THEN completion' = UnavailableText
       ELSE completion' \in { "provider text", "", ErrorText }
    /\ UNCHANGED << clients, model, opc, provider, adapter, deltas, relayed, stored,
                    fault, actual_model, native, attempts, stream_open, events,
                    nmessages, title, chat_tags >>
    /\ UNCHANGED << filterVars, registryVars, concVars, tagVars, reqVars, chatVars, dbVars >>

(***************************************************************************)
(* Concurrent stream requests: every request runs its own generator, whose *)
(* locals (buffer, the response iterator, the position in the fallback     *)
(* message) belong to that generator's frame; the client handles are the   *)
(* only objects two requests share, and no generator assigns them.         *)
(***************************************************************************)
MaxConcChunks == 2   \* number of chunks delivered to each of the concurrent requests at most

Sessions == { 1, 2 }

\* contents of the chunks delivered to concurrent requests
ConcChunks == { << >>, << "a" >>, Marker }

\* identifiers the concurrent multi-provider requests carry
ConcModels == { S_gpt_4o, S_claude_sonnet_4 }

\* chat_handler.get_ai_response_stream lines 28-33 and 36-71, request s
ChatSessionStart(s) ==
    /\ s_kind[s] = "chat_handler"
    /\ s_pc[s] = "start"
    /\ s_pc' = [s_pc EXCEPT ![s] = IF sh_openai_client THEN "stream" ELSE "fallback"]
    /\ s_adapter' = [s_adapter EXCEPT ![s] = IF sh_openai_client THEN "openai" ELSE "fallback"]
    /\ UNCHANGED << sh_openai_client, sh_clients, s_kind, s_model, s_response,
                    s_buffer, s_yielded >>
    /\ UNCHANGED << filterVars, registryVars, orchVars, tagVars, reqVars, chatVars, dbVars >>

\* ChatSessionChunk with the slip of keeping buffer in a module-level
\* variable that every request reads and writes
ChatSessionChunkSharedBuffer(s, content) ==
    /\ s_kind[s] = "chat_handler"
    /\ s_pc[s] = "stream"
    /\ Len(s_response[s]) < MaxConcChunks
    /\ s_response' = [s_response EXCEPT ![s] = Append(@, content)]
    /\ LET r == FeedChunk(s_buffer[s], content)
       IN  /\ s_buffer' = [t \in Sessions |-> r.buffer]
           /\ s_yielded' = [s_yielded EXCEPT ![s] = @ \o r.yielded]
    /\ UNCHANGED << sh_openai_client, sh_clients, s_kind, s_model, s_pc, s_adapter >>
    /\ UNCHANGED << filterVars, registryVars, orchVars, tagVars, reqVars, chatVars, dbVars >>

\* chat_handler.get_ai_response_stream lines 73-105, request s: one
\* iteration of the for loop on the request's own buffer
ChatSessionChunk(s, content) ==
    /\ s_kind[s] = "chat_handler"
    /\ s_pc[s] = "stream"
    /\ Len(s_response[s]) < MaxConcChunks
    /\ s_response' = [s_response EXCEPT ![s] = Append(@, content)]
    /\ LET r == FeedChunk(s_buffer[s], content)
       IN  /\ s_buffer' = [s_buffer EXCEPT ![s] = r.buffer]
           /\ s_yielded' = [s_yielded EXCEPT ![s] = @ \o r.yielded]
    /\ UNCHANGED << sh_openai_client, sh_clients, s_kind, s_model, s_pc, s_adapter >>
    /\ UNCHANGED << filterVars, registryVars, orchVars, tagVars, reqVars, chatVars, dbVars >>

\* multi_provider_chat_handler lines 99-119, request s
MultiSessionStart(s) ==
    /\ s_kind[s] = "multi_provider"
    /\ s_pc[s] = "start"
    /\ LET a == Dispatch(get_provider_for_model(s_model[s]), sh_clients)
       IN  /\ s_adapter' = [s_adapter EXCEPT ![s] = a]
           /\ s_pc' = [s_pc EXCEPT ![s] = IF a = "fallback" THEN "fallback" ELSE "stream"]
    /\ UNCHANGED << sh_openai_client, sh_clients, s_kind, s_model, s_response,
                    s_buffer, s_yielded >>
    /\ UNCHANGED << filterVars, registryVars, orchVars, tagVars, reqVars, chatVars, dbVars >>

\* one iteration of the adapter's loop, request s (lines 157-159, 179-180,
\* 205-207, 220-223): the adapters keep no buffer
MultiSessionChunk(s, content) ==
    /\ s_kind[s] = "multi_provider"
    /\ s_pc[s] = "stream"
    /\ Len(s_response[s]) < MaxConcChunks
    /\ s_response' = [s_response EXCEPT ![s] = Append(@, content)]
    /\ s_yielded' = [s_yielded EXCEPT ![s] =
                        IF AdapterYields(s_adapter[s], content) THEN Append(@, content) ELSE @]
    /\ UNCHANGED << sh_openai_client, sh_clients, s_kind, s_model, s_pc, s_adapter,
                    s_buffer >>
    /\ UNCHANGED << filterVars, registryVars, orchVars, tagVars, reqVars, chatVars, dbVars >>

\* the fallback message of the entry point of request s
SessionFallbackMessage(s) ==
    IF s_kind[s] = "chat_handler" THEN ChatFallbackMessage ELSE FallbackMessage

\* one character of the fallback message (chat_handler lines 31-32,
\* multi_provider_chat_handler lines 228-229), request s
SessionFallbackChar(s) ==
    /\ s_pc[s] = "fallback"
    /\ Len(s_yielded[s]) < Len(SessionFallbackMessage(s))
    /\ s_yielded' = [s_yielded EXCEPT ![s] =
                        Append(@, << SessionFallbackMessage(s)[Len(@) + 1] >>)]
    /\ UNCHANGED << sh_openai_client, sh_clients, s_kind, s_model, s_pc, s_adapter,
                    s_response, s_buffer >>
    /\ UNCHANGED << filterVars, registryVars, orchVars, tagVars, reqVars, chatVars, dbVars >>

\* the generator of request s returns: its loop is exhausted
SessionEnd(s) ==
    /\ \/ s_pc[s] = "stream"
       \/ s_pc[s] = "fallback" /\ Len(s_yielded[s]) = Len(SessionFallbackMessage(s))
    /\ s_pc' = [s_pc EXCEPT ![s] = "done"]
    /\ UNCHANGED << sh_openai_client, sh_clients, s_kind, s_model, s_adapter,
                    s_response, s_buffer, s_yielded >>
    /\ UNCHANGED << filterVars, registryVars, orchVars, tagVars, reqVars, chatVars, dbVars >>

(***************************************************************************)
(* chat_handler.py: suggest_tags                                           *)
(***************************************************************************)
MaxMsgs == 2         \* number of messages in an enumerated conversation at most

\* the vocabulary and the tag names of lines 183-194
K_python == << "p", "y", "t", "h", "o", "n" >>
K_javascript == << "j", "a", "v", "a", "s", "c", "r", "i", "p", "t" >>
K_js == << "j", "s" >>
K_code == << "c", "o", "d", "e" >>
K_programming == << "p", "r", "o", "g", "r", "a", "m", "m", "i", "n", "g" >>
K_coding == << "c", "o", "d", "i", "n", "g" >>
K_data == << "d", "a", "t", "a" >>
K_web == << "w", "e", "b" >>
K_website == << "w", "e", "b", "s", "i", "t", "e" >>
K_general == << "g", "e", "n", "e", "r", "a", "l" >>

\* str.lower on one character (ASCII letters)
LowerChar(c) ==
    CASE c = "A" -> "a" [] c = "B" -> "b" [] c = "C" -> "c" [] c = "D" -> "d"
      [] c = "E" -> "e" [] c = "F" -> "f" [] c = "G" -> "g" [] c = "H" -> "h"
      [] c = "I" -> "i" [] c = "J" -> "j" [] c = "K" -> "k" [] c = "L" -> "l"
      [] c = "M" -> "m" [] c = "N" -> "n" [] c = "O" -> "o" [] c = "P" -> "p"
      [] c = "Q" -> "q" [] c = "R" -> "r" [] c = "S" -> "s" [] c = "T" -> "t"
      [] c = "U" -> "u" [] c = "V" -> "v" [] c = "W" -> "w" [] c = "X" -> "x"
      [] c = "Y" -> "y" [] c = "Z" -> "z"
      [] OTHER -> c

\* str.lower
Lower(t) == [i \in 1 .. Len(t) |-> LowerChar(t[i])]

\* str.strip for the whitespace the enumerated texts use
RECURSIVE Strip(_)
Strip(t) ==
    IF t = << >> THEN t
    ELSE IF t[1] = " " THEN Strip(Tail(t))
    ELSE IF t[Len(t)] = " " THEN Strip(SubSeq(t, 1, Len(t) - 1))
    ELSE t

\* str.split(','): the pieces between commas, empty pieces included
RECURSIVE SplitComma(_)
SplitComma(t) ==
    LET i == Find(t, << "," >>, 0) IN
    IF i = -1 THEN << t >>
    ELSE << Slice(t, 0, i) >> \o SplitComma(Slice(t, i + 1, Len(t)))

\* " ".join of a list of texts
RECURSIVE JoinSpace(_)
JoinSpace(ts) ==
    IF ts = << >> THEN << >>
    ELSE IF Len(ts) = 1 THEN ts[1]
    ELSE ts[1] \o << " " >> \o JoinSpace(Tail(ts))

\* lines 183-194 and 231-242: the tags matched in content
KeywordTags(content) ==
    LET found ==
            (IF Contains(content, K_python) THEN { K_python } ELSE {})
            \cup (IF Contains(content, K_javascript) \/ Contains(content, K_js)
                  THEN { K_javascript } ELSE {})
            \cup (IF Contains(content, K_code) \/ Contains(content, K_programming)
                  THEN { K_coding } ELSE {})
            \cup (IF Contains(content, K_data) THEN { K_data } ELSE {})
            \cup (IF Contains(content, K_web) \/ Contains(content, K_website)
                  THEN { K_web } ELSE {})
    IN  IF found # {} THEN found ELSE { K_general }

\* the fallback with the slip of joining the content of every message,
\* whatever its role
fallback_tags_all_roles(messages) ==
    KeywordTags(JoinSpace([i \in 1 .. Len(messages) |-> Lower(messages[i].content)]))

\* lines 179-194 and 229-242: the lower-cased contents of the user messages
\* joined by a space, then the keyword tests
fallback_tags(messages) ==
    LET IsUser(m) == m.role = "user"
        users == SelectSeq(messages, IsUser)
    IN  KeywordTags(JoinSpace([i \in 1 .. Len(users) |-> Lower(users[i].content)]))

\* lines 223-224: the tags of a reply of the provider
ReplyTags(reply) ==
    LET pieces == SplitComma(reply)
    IN  { Lower(Strip(pieces[i])) : i \in { j \in 1 .. Len(pieces) : Strip(pieces[j]) # << >> } }

\* message contents of the enumerated conversations
TagTexts ==
    { << "P", "y", "t", "h", "o", "n" >>,
      << "J", "S" >>,
      << "j", "s", "o", "n" >>,
      << "C", "o", "d", "e" >>,
      << "h", "e", "l", "l", "o" >>,
      << "p", "y", "t" >>,
      << "h", "o", "n" >>,
      << "w", "e", "b", " ", "d", "a", "t", "a" >>,
      << "P", "r", "o", "g", "r", "a", "m", "m", "i", "n", "g" >>,
      << "W", "e", "b", "s", "i", "t", "e" >>,
      << "J", "a", "v", "a", "S", "c", "r", "i", "p", "t" >> }

TagMessages == [ role : { "user", "assistant", "system" }, content : TagTexts ]

\* message.content of the replies the tagging call can return
TagReplies ==
    { NoneContent, << >>,
      << "P", "y", "t", "h", "o", "n", ",", " ", "d", "a", "t", "a", "-", "s", "t", "r", "u", "c", "t", "u", "r", "e", "s" >>,
      << " ", ",", " " >>,
      << "w", "e", "b", ",", ",", "W", "e", "b", " " >> }

\* lines 174-175: no messages
SuggestTagsEmpty ==
    /\ t_pc = "start"
    /\ t_messages = << >>
    /\ t_result' = {}
    /\ t_path' = "empty"
    /\ t_pc' = "done"
    /\ UNCHANGED << t_client, t_messages >>
    /\ UNCHANGED << filterVars, registryVars, orchVars, concVars, reqVars, chatVars, dbVars >>

\* lines 177-194: no client handle
SuggestTagsFallback ==
    /\ t_pc = "start"
    /\ t_messages # << >>
    /\ ~t_client
    /\ t_result' = fallback_tags(t_messages)
    /\ t_path' = "fallback"
    /\ t_pc' = "done"
    /\ UNCHANGED << t_client, t_messages >>
    /\ UNCHANGED << filterVars, registryVars, orchVars, concVars, reqVars, chatVars, dbVars >>

\* lines 218-226: the tagging call returns reply
SuggestTagsProvider(reply) ==
    /\ t_pc = "start"
    /\ t_messages # << >>
    /\ t_client
    /\ t_result' = IF reply # NoneContent /\ reply # << >>
                   THEN ReplyTags(reply)
                   ELSE { K_general }
    /\ t_path' = "provider"
    /\ t_pc' = "done"
    /\ UNCHANGED << t_client, t_messages >>
    /\ UNCHANGED << filterVars, registryVars, orchVars, concVars, reqVars, chatVars, dbVars >>

\* lines 227-242: the tagging call raises
SuggestTagsRaises ==
    /\ t_pc = "start"
    /\ t_messages # << >>
    /\ t_client
    /\ t_result' = fallback_tags(t_messages)
    /\ t_path' = "except"
    /\ t_pc' = "done"
    /\ UNCHANGED << t_client, t_messages >>
    /\ UNCHANGED << filterVars, registryVars, orchVars, concVars, reqVars, chatVars, dbVars >>

(***************************************************************************)
(* multi_provider_chat_handler.py: the request each adapter builds         *)
(***************************************************************************)
MaxReqMsgs == 2      \* number of messages in the list handed to an adapter at most

\* the content of system_message of _get_openai_response (lines 134-148),
\* the instruction to fence code, as one unit of text
FenceInstruction == << "fence instruction" >>

\* the default system_prompt of _get_anthropic_response (line 165)
ClaudeDefaultPrompt == << "You are a helpful assistant that answers queries professionally." >>

ReqMessages == [ role : { "user", "assistant", "system" }, content : { << "x" >>, << "y" >> } ]

\* the value of q_sent before the adapter has built its request
NoRequest == [ messages |-> << >>, system |-> NoneContent, prompt |-> NoneContent ]

\* lines 166-171: the content of the last system message, the default when
\* there is none
RECURSIVE ClaudeSystemPrompt(_, _)
ClaudeSystemPrompt(msgs, prompt) ==
    IF msgs = << >> THEN prompt
    ELSE ClaudeSystemPrompt(Tail(msgs),
                            IF Head(msgs).role = "system" THEN Head(msgs).content ELSE prompt)

\* lines 188-194: the prompt of _get_google_response, the messages that are
\* not system messages behind their role prefix, joined by a blank line
RECURSIVE GooglePrompt(_)
GooglePrompt(msgs) ==
    IF msgs = << >> THEN << >>
    ELSE LET m == Head(msgs)
             part == << (IF m.role = "user" THEN "Human: " ELSE "Assistant: ") >> \o m.content
             rest == GooglePrompt(Tail(msgs))
         IN  IF m.role = "system" THEN rest
             ELSE IF rest = << >> THEN part
             ELSE part \o << "\n\n" >> \o rest

\* lines 130-155: the messages copied, the fence instruction inserted in front
SendOpenAI ==
    /\ q_pc = "start"
    /\ q_adapter = "openai"
    /\ q_sent' = [ messages |-> << [role |-> "system", content |-> FenceInstruction] >>
                                   \o [i \in 1 .. Len(q_messages) |->
                                          [role |-> q_messages[i].role,
                                           content |-> q_messages[i].content]],
                   system |-> NoneContent,
                   prompt |-> NoneContent ]
    /\ q_pc' = "sent"
    /\ UNCHANGED << q_adapter, q_messages >>
    /\ UNCHANGED << filterVars, registryVars, orchVars, concVars, tagVars, chatVars, dbVars >>

\* lines 164-178: system messages become the system parameter, the other
\* messages are passed on
SendAnthropic ==
    /\ q_pc = "start"
    /\ q_adapter = "anthropic"
    /\ LET NotSystem(m) == m.role # "system"
       IN  q_sent' = [ messages |-> SelectSeq(q_messages, NotSystem),
                       system |-> ClaudeSystemPrompt(q_messages, ClaudeDefaultPrompt),
                       prompt |-> NoneContent ]
    /\ q_pc' = "sent"
    /\ UNCHANGED << q_adapter, q_messages >>
    /\ UNCHANGED << filterVars, registryVars, orchVars, concVars, tagVars, chatVars, dbVars >>

\* lines 185-203: one prompt text, no system instruction
SendGoogle ==
    /\ q_pc = "start"
    /\ q_adapter = "google"
    /\ q_sent' = [ messages |-> << >>,
                   system |-> NoneContent,
                   prompt |-> GooglePrompt(q_messages) ]
    /\ q_pc' = "sent"
    /\ UNCHANGED << q_adapter, q_messages >>
    /\ UNCHANGED << filterVars, registryVars, orchVars, concVars, tagVars, chatVars, dbVars >>

\* lines 212-218: the messages copied as they are
SendMistral ==
    /\ q_pc = "start"
    /\ q_adapter = "mistral"
    /\ q_sent' = [ messages |-> [i \in 1 .. Len(q_messages) |->
                                    [role |-> q_messages[i].role,
                                     content |-> q_messages[i].content]],
                   system |-> NoneContent,
                   prompt |-> NoneContent ]
    /\ q_pc' = "sent"
    /\ UNCHANGED << q_adapter, q_messages >>
    /\ UNCHANGED << filterVars, registryVars, orchVars, concVars, tagVars, chatVars, dbVars >>

(***************************************************************************)
(* chat_handler.py: MODEL_MAPPING, get_ai_response, generate_chat_summary  *)
(***************************************************************************)
MaxChatMsgs == 2     \* number of messages in the list of a non-streaming call at most

\* names of MODEL_MAPPING that the multi-provider table does not have
S_gpt_4 == << "g", "p", "t", "-", "4" >>
S_gpt_4_turbo == << "g", "p", "t", "-", "4", "-", "t", "u", "r", "b", "o" >>
S_gpt_3_5_turbo == << "g", "p", "t", "-", "3", ".", "5", "-", "t", "u", "r", "b", "o" >>
S_gpt_4_1106_preview == << "g", "p", "t", "-", "4", "-", "1", "1", "0", "6", "-", "p", "r", "e", "v", "i", "e", "w" >>

\* MODEL_MAPPING, lines 17-23
MODEL_MAPPING ==
    (S_gpt_4o :> S_gpt_4)
    @@ (S_gpt_4o_mini :> S_gpt_3_5_turbo)
    @@ (S_gpt_4 :> S_gpt_4)
    @@ (S_gpt_4_turbo :> S_gpt_4_1106_preview)
    @@ (S_gpt_3_5_turbo :> S_gpt_3_5_turbo)

\* MODEL_MAPPING.get with the slip of defaulting to the identifier itself
ChatMappedModelKeepsId(m) ==
    IF m \in DOMAIN MODEL_MAPPING THEN MODEL_MAPPING[m] ELSE m

\* MODEL_MAPPING.get(model, "gpt-4o"), lines 36 and 114
ChatMappedModel(m) ==
    IF m \in DOMAIN MODEL_MAPPING THEN MODEL_MAPPING[m] ELSE S_gpt_4o

\* identifiers a call may carry: the keys of the table and others
ChatModels ==
    DOMAIN MODEL_MAPPING
    \cup { S_gpt_4_1106_preview, S_gpt_5, S_claude_sonnet_4, S_unknown_xyz, << >> }

\* the summary model of line 160
SummaryModel == S_gpt_3_5_turbo

\* len of the title cut of lines 140 and 167
TitleCut == 40

\* the fixed texts of lines 111, 129, 134 and 141
UnavailableChars == << "A", "I", " ", "s", "e", "r", "v", "i", "c", "e", " ", "i", "s", " ", "c", "u", "r", "r", "e", "n", "t", "l", "y", " ", "u", "n", "a", "v", "a", "i", "l", "a", "b", "l", "e", ".", " ", "P", "l", "e", "a", "s", "e", " ", "c", "h", "e", "c", "k", " ", "y", "o", "u", "r", " ", "A", "P", "I", " ", "k", "e", "y", "s", "." >>
ErrorChars == << "E", "r", "r", "o", "r", " ", "g", "e", "n", "e", "r", "a", "t", "i", "n", "g", " ", "r", "e", "s", "p", "o", "n", "s", "e", ".", " ", "P", "l", "e", "a", "s", "e", " ", "t", "r", "y", " ", "a", "g", "a", "i", "n", "." >>
NewChatChars == << "N", "e", "w", " ", "C", "h", "a", "t" >>
Ellipsis == << ".", ".", "." >>

\* message contents of the enumerated lists: short, of exactly 40 characters
\* and of 41 characters; the text of a provider reply
ShortText == << "h", "i" >>
ProviderText == << "s", "u", "m" >>
Text40 == [i \in 1 .. 40 |-> "b"]
Text41 == [i \in 1 .. 41 |-> "a"]

ChatMessages == [ role : { "user", "assistant" }, content : { ShortText, Text40, Text41 } ]

\* message.content of the replies a completion call can return
Replies == { NoneContent, << >>, ProviderText }

\* lines 138-142 and 165-169: the title taken from the first user message
FallbackTitle(messages) ==
    LET users == { i \in 1 .. Len(messages) : messages[i].role = "user" } IN
    IF users = {} THEN NewChatChars
    ELSE LET first == messages[CHOOSE i \in users : \A j \in users : i <= j].content
             content == Slice(first, 0, IF Len(first) < TitleCut THEN Len(first) ELSE TitleCut)
         IN  IF Len(first) > TitleCut THEN content \o Ellipsis ELSE content

\* lines 110-111
GetAiResponseNoClient ==
    /\ n_pc = "start"
    /\ n_call = "get_ai_response"
    /\ ~n_client
    /\ n_native' = NoneContent
    /\ n_result' = UnavailableChars
    /\ n_path' = "no_client"
    /\ n_pc' = "done"
    /\ UNCHANGED << n_client, n_call, n_model, n_messages >>
    /\ UNCHANGED << filterVars, registryVars, orchVars, concVars, tagVars, reqVars, dbVars >>

\* lines 113-126: the call returns reply
GetAiResponseReturns(reply) ==
    /\ n_pc = "start"
    /\ n_call = "get_ai_response"
    /\ n_client
    /\ n_native' = ChatMappedModel(n_model)
    /\ n_result' = IF reply = NoneContent THEN << >> ELSE reply
    /\ n_path' = "provider"
    /\ n_pc' = "done"
    /\ UNCHANGED << n_client, n_call, n_model, n_messages >>
    /\ UNCHANGED << filterVars, registryVars, orchVars, concVars, tagVars, reqVars, dbVars >>

\* lines 123-129: the call raises and the exception is caught
GetAiResponseCaught ==
    /\ n_pc = "start"
    /\ n_call = "get_ai_response"
    /\ n_client
    /\ n_native' = ChatMappedModel(n_model)
    /\ n_result' = ErrorChars
    /\ n_path' = "except"
    /\ n_pc' = "done"
    /\ UNCHANGED << n_client, n_call, n_model, n_messages >>
    /\ UNCHANGED << filterVars, registryVars, orchVars, concVars, tagVars, reqVars, dbVars >>

\* lines 133-134
SummaryEmpty ==
    /\ n_pc = "start"
    /\ n_call = "generate_chat_summary"
    /\ n_messages = << >>
    /\ n_native' = NoneContent
    /\ n_result' = NewChatChars
    /\ n_path' = "empty"
    /\ n_pc' = "done"
    /\ UNCHANGED << n_client, n_call, n_model, n_messages >>
    /\ UNCHANGED << filterVars, registryVars, orchVars, concVars, tagVars, reqVars, dbVars >>

\* lines 136-142
SummaryNoClient ==
    /\ n_pc = "start"
    /\ n_call = "generate_chat_summary"
    /\ n_messages # << >>
    /\ ~n_client
    /\ n_native' = NoneContent
    /\ n_result' = FallbackTitle(n_messages)
    /\ n_path' = "no_client"
    /\ n_pc' = "done"
    /\ UNCHANGED << n_client, n_call, n_model, n_messages >>
    /\ UNCHANGED << filterVars, registryVars, orchVars, concVars, tagVars, reqVars, dbVars >>

\* lines 144-161: the call returns reply
SummaryReturns(reply) ==
    /\ n_pc = "start"
    /\ n_call = "generate_chat_summary"
    /\ n_messages # << >>
    /\ n_client
    /\ n_native' = SummaryModel
    /\ n_result' = IF reply = NoneContent \/ reply = << >> THEN NewChatChars ELSE reply
    /\ n_path' = "provider"
    /\ n_pc' = "done"
    /\ UNCHANGED << n_client, n_call, n_model, n_messages >>
    /\ UNCHANGED << filterVars, registryVars, orchVars, concVars, tagVars, reqVars, dbVars >>

\* SummaryCaught with the slip of letting the exception leave the function
SummaryCaughtReraises ==
    /\ n_pc = "start"
    /\ n_call = "generate_chat_summary"
    /\ n_messages # << >>
    /\ n_client
    /\ n_native' = SummaryModel
    /\ n_result' = NoneContent
    /\ n_path' = "except"
    /\ n_pc' = "raised"
    /\ UNCHANGED << n_client, n_call, n_model, n_messages >>
    /\ UNCHANGED << filterVars, registryVars, orchVars, concVars, tagVars, reqVars, dbVars >>

\* lines 158-169: the call raises and the exception is caught
SummaryCaught ==
    /\ n_pc = "start"
    /\ n_call = "generate_chat_summary"
    /\ n_messages # << >>
    /\ n_client
    /\ n_native' = SummaryModel
    /\ n_result' = FallbackTitle(n_messages)
    /\ n_path' = "except"
    /\ n_pc' = "done"
    /\ UNCHANGED << n_client, n_call, n_model, n_messages >>
    /\ UNCHANGED << filterVars, registryVars, orchVars, concVars, tagVars, reqVars, dbVars >>

\* get_ai_response_stream lines 36-69: the streaming request is created
ChatStreamCreate ==
    /\ n_pc = "start"
    /\ n_call = "get_ai_response_stream"
    /\ n_client
    /\ n_native' = ChatMappedModel(n_model)
    /\ n_result' = NoneContent
    /\ n_path' = "stream"
    /\ n_pc' = "done"
    /\ UNCHANGED << n_client, n_call, n_model, n_messages >>
    /\ UNCHANGED << filterVars, registryVars, orchVars, concVars, tagVars, reqVars, dbVars >>

\* get_ai_response_stream lines 28-33: no request; the characters of the
\* fallback message, yielded one by one, are the text received
ChatStreamNoClient ==
    /\ n_pc = "start"
    /\ n_call = "get_ai_response_stream"
    /\ ~n_client
    /\ n_native' = NoneContent
    /\ n_result' = [i \in 1 .. Len(ChatFallbackMessage) |-> ChatFallbackMessage[i]]
    /\ n_path' = "no_client"
    /\ n_pc' = "done"
    /\ UNCHANGED << n_client, n_call, n_model, n_messages >>
    /\ UNCHANGED << filterVars, registryVars, orchVars, concVars, tagVars, reqVars, dbVars >>

(***************************************************************************)
(* routes.py 309-320, models.py 58-84: get-or-create of the suggested Tag  *)
(* by concurrent completions, each in its own database session             *)
(***************************************************************************)
MaxCompletions == 2  \* number of concurrent stream completions

Completions == 1 .. MaxCompletions

\* chats the completions belong to
ChatIds == { 1, 2 }

\* the value of d_found before the query
NothingFound == [ tag |-> 0, linked |-> FALSE ]

\* id given to a new Tag row
NewTagId == 1

\* line 314: Tag.query.filter_by(name=tag_name).first() reads the committed rows
QueryTag(c) ==
    /\ d_pc[c] = "query"
    /\ d_found' = [d_found EXCEPT ![c].tag = IF d_tags = {} THEN 0 ELSE CHOOSE t \in d_tags : TRUE]
    /\ d_pc' = [d_pc EXCEPT ![c] = "append"]
    /\ UNCHANGED << d_chat, d_tags, d_links >>
    /\ UNCHANGED << filterVars, registryVars, orchVars, concVars, tagVars, reqVars, chatVars >>

\* lines 315-318: a new Tag is added to the session when none was found;
\* chat.tags is loaded and the tag appended to it
AppendTag(c) ==
    /\ d_pc[c] = "append"
    /\ d_found' = [d_found EXCEPT ![c].linked =
                      d_found[c].tag # 0 /\ << d_chat[c], d_found[c].tag >> \in d_links]
    /\ d_pc' = [d_pc EXCEPT ![c] = "commit"]
    /\ UNCHANGED << d_chat, d_tags, d_links >>
    /\ UNCHANGED << filterVars, registryVars, orchVars, concVars, tagVars, reqVars, chatVars >>

\* line 320: db.session.commit().  Tag.name is unique (models.py 60) and
\* (chat_id, tag_id) is the primary key of chat_tags (models.py 80-83): the
\* insert of a second Tag of the name, or of a row of chat_tags that exists,
\* raises IntegrityError, which nothing in generate catches
CommitCompletion(c) ==
    /\ d_pc[c] = "commit"
    /\ LET t == IF d_found[c].tag = 0 THEN NewTagId ELSE d_found[c].tag
       IN  IF \/ d_found[c].tag = 0 /\ d_tags # {}
              \/ ~d_found[c].linked /\ << d_chat[c], t >> \in d_links
           THEN /\ d_pc' = [d_pc EXCEPT ![c] = "failed"]
                /\ UNCHANGED << d_tags, d_links >>
           ELSE /\ d_pc' = [d_pc EXCEPT ![c] = "done"]
                /\ d_tags' = d_tags \cup { t }
                /\ d_links' = d_links \cup { << d_chat[c], t >> }
    /\ UNCHANGED << d_chat, d_found >>
    /\ UNCHANGED << filterVars, registryVars, orchVars, concVars, tagVars, reqVars, chatVars >>

(***************************************************************************)
(* Specifications                                                          *)
(***************************************************************************)
FilterIdle ==
    /\ openai_client = TRUE
    /\ pc = "start"
    /\ response = << >>
    /\ buffer = << >>
    /\ yielded = << >>

RegistryIdle ==
    /\ rmodel = << >>
    /\ rprovider = "unset"

OrchIdle ==
    /\ clients = {}
    /\ model = << >>
    /\ opc = "idle"
    /\ provider = "none"
    /\ adapter = "none"
    /\ deltas = << >>
    /\ relayed = << >>
    /\ stored = << >>
    /\ fault = "none"
    /\ completion = "unset"
    /\ actual_model = << >>
    /\ native = << >>
    /\ attempts = 0
    /\ stream_open = FALSE
    /\ events = << >>
    /\ nmessages = 1
    /\ title = "None"
    /\ chat_tags = << >>

ConcIdle ==
    /\ sh_openai_client = TRUE
    /\ sh_clients = {}
    /\ s_kind = [s \in Sessions |-> "chat_handler"]
    /\ s_model = [s \in Sessions |-> << >>]
    /\ s_pc = [s \in Sessions |-> "start"]
    /\ s_adapter = [s \in Sessions |-> "none"]
    /\ s_response = [s \in Sessions |-> << >>]
    /\ s_buffer = [s \in Sessions |-> << >>]
    /\ s_yielded = [s \in Sessions |-> << >>]

TagsIdle ==
    /\ t_client = TRUE
    /\ t_messages = << >>
    /\ t_pc = "start"
    /\ t_path = "none"
    /\ t_result = {}

RequestIdle ==
    /\ q_adapter = "openai"
    /\ q_messages = << >>
    /\ q_pc = "start"
    /\ q_sent = NoRequest

ChatIdle ==
    /\ n_client = TRUE
    /\ n_call = "get_ai_response"
    /\ n_model = << >>
    /\ n_messages = << >>
    /\ n_pc = "start"
    /\ n_path = "none"
    /\ n_native = NoneContent
    /\ n_result = NoneContent

DbIdle ==
    /\ d_chat = [c \in Completions |-> 1]
    /\ d_pc = [c \in Completions |-> "query"]
    /\ d_found = [c \in Completions |-> NothingFound]
    /\ d_tags = {}
    /\ d_links = {}

\* the fence filter: one call of chat_handler.get_ai_response_stream
InitFilter ==
    /\ openai_client \in BOOLEAN
    /\ pc = "start"
    /\ response = << >>
    /\ buffer = << >>
    /\ yielded = << >>
    /\ RegistryIdle
    /\ OrchIdle
    /\ ConcIdle
    /\ TagsIdle
    /\ RequestIdle
    /\ ChatIdle
    /\ DbIdle

NextFilter ==
    \/ StartStream
    \/ YieldFallbackChar
    \/ FallbackReturn
    \/ \E content \in Chunks : ProcessChunk(content)
    \/ EndOfStream
    \/ ProviderRaises

SpecFilter == InitFilter /\ [][NextFilter]_vars

\* the registry: get_provider_for_model applied to one identifier
InitRegistry ==
    /\ rmodel \in ModelIds
    /\ rprovider = "unset"
    /\ FilterIdle
    /\ OrchIdle
    /\ ConcIdle
    /\ TagsIdle
    /\ RequestIdle
    /\ ChatIdle
    /\ DbIdle

NextRegistry == ResolveProvider

SpecRegistry == InitRegistry /\ [][NextRegistry]_vars

\* the orchestrator: one stream request and one completion call, for every
\* credential configuration
InitOrch ==
    /\ clients \in SUBSET Providers
    /\ model \in OrchModels
    /\ opc = "idle"
    /\ provider = "none"
    /\ adapter = "none"
    /\ deltas = << >>
    /\ relayed = << >>
    /\ stored = << >>
    /\ fault = "none"
    /\ completion = "unset"
    /\ actual_model = << >>
    /\ native = << >>
    /\ attempts = 0
    /\ stream_open = FALSE
    /\ events = << >>
    /\ nmessages \in { 1, 2 }
    /\ title = "None"
    /\ chat_tags = << >>
    /\ FilterIdle
    /\ RegistryIdle
    /\ ConcIdle
    /\ TagsIdle
    /\ RequestIdle
    /\ ChatIdle
    /\ DbIdle

NextOrch ==
    \/ SelectAdapter
    \/ OpenStream
    \/ CreateRaises
    \/ \E c \in ChunkContents : ProviderChunk(c)
    \/ ProviderFails
    \/ FallbackYield
    \/ StreamExhausted
    \/ ConsumerAbandons
    \/ get_ai_response

SpecOrch == InitOrch /\ [][NextOrch]_vars

\* one stream request alone, driven by a consumer that keeps iterating while
\* the stream has a step to take; the provider stream is finite or fails
NextStream ==
    \/ SelectAdapter
    \/ OpenStream
    \/ CreateRaises
    \/ \E c \in ChunkContents : ProviderChunk(c)
    \/ ProviderFails
    \/ FallbackYield
    \/ StreamExhausted
    \/ ConsumerAbandons

SpecStreamFair == InitOrch /\ [][NextStream]_vars /\ WF_vars(NextStream)

\* two concurrent stream requests over the handles of one process, their
\* steps interleaved in every order; both modules build their OpenAI handle
\* from the same OPENAI_API_KEY (chat_handler.py 6-10, __init__ 13-17)
InitConc ==
    /\ sh_clients \in SUBSET { "openai", "anthropic" }
    /\ sh_openai_client = ("openai" \in sh_clients)
    /\ s_kind \in [Sessions -> { "chat_handler", "multi_provider" }]
    /\ s_model \in [Sessions -> ConcModels]
    /\ \A s \in Sessions : s_kind[s] = "chat_handler" => s_model[s] = S_gpt_4o
    /\ s_pc = [s \in Sessions |-> "start"]
    /\ s_adapter = [s \in Sessions |-> "none"]
    /\ s_response = [s \in Sessions |-> << >>]
    /\ s_buffer = [s \in Sessions |-> << >>]
    /\ s_yielded = [s \in Sessions |-> << >>]
    /\ FilterIdle
    /\ RegistryIdle
    /\ OrchIdle
    /\ TagsIdle
    /\ RequestIdle
    /\ ChatIdle
    /\ DbIdle

NextConc ==
    \/ \E s \in Sessions : ChatSessionStart(s)
    \/ \E s \in Sessions : \E content \in ConcChunks : ChatSessionChunk(s, content)
    \/ \E s \in Sessions : MultiSessionStart(s)
    \/ \E s \in Sessions : \E content \in ConcChunks : MultiSessionChunk(s, content)
    \/ \E s \in Sessions : SessionFallbackChar(s)
    \/ \E s \in Sessions : SessionEnd(s)

SpecConc == InitConc /\ [][NextConc]_vars

\* suggest_tags applied to one conversation
InitTags ==
    /\ t_client \in BOOLEAN
    /\ t_messages \in SeqsUpTo(TagMessages, MaxMsgs)
    /\ t_pc = "start"
    /\ t_path = "none"
    /\ t_result = {}
    /\ FilterIdle
    /\ RegistryIdle
    /\ OrchIdle
    /\ ConcIdle
    /\ RequestIdle
    /\ ChatIdle
    /\ DbIdle

NextTags ==
    \/ SuggestTagsEmpty
    \/ SuggestTagsFallback
    \/ \E reply \in TagReplies : SuggestTagsProvider(reply)
    \/ SuggestTagsRaises

SpecTags == InitTags /\ [][NextTags]_vars

\* one adapter building the request for one message list
InitRequest ==
    /\ q_adapter \in Providers
    /\ q_messages \in SeqsUpTo(ReqMessages, MaxReqMsgs)
    /\ q_pc = "start"
    /\ q_sent = NoRequest
    /\ FilterIdle
    /\ RegistryIdle
    /\ OrchIdle
    /\ ConcIdle
    /\ TagsIdle
    /\ ChatIdle
    /\ DbIdle

NextRequest ==
    \/ SendOpenAI
    \/ SendAnthropic
    \/ SendGoogle
    \/ SendMistral

SpecRequest == InitRequest /\ [][NextRequest]_vars

\* one non-streaming call of chat_handler, or the creation of its stream
InitChat ==
    /\ n_client \in BOOLEAN
    /\ n_call \in { "get_ai_response", "generate_chat_summary", "get_ai_response_stream" }
    /\ n_model \in ChatModels
    /\ n_messages \in SeqsUpTo(ChatMessages, MaxChatMsgs)
    /\ n_pc = "start"
    /\ n_path = "none"
    /\ n_native = NoneContent
    /\ n_result = NoneContent
    /\ FilterIdle
    /\ RegistryIdle
    /\ OrchIdle
    /\ ConcIdle
    /\ TagsIdle
    /\ RequestIdle
    /\ DbIdle

NextChat ==
    \/ GetAiResponseNoClient
    \/ \E reply \in Replies : GetAiResponseReturns(reply)
    \/ GetAiResponseCaught
    \/ SummaryEmpty
    \/ SummaryNoClient
    \/ \E reply \in Replies : SummaryReturns(reply)
    \/ SummaryCaught
    \/ ChatStreamCreate
    \/ ChatStreamNoClient

SpecChat == InitChat /\ [][NextChat]_vars

\* concurrent completions of first exchanges that all suggest one tag
\* name, on the same chat or on different chats, with the tag present or
\* not when they start
InitDb ==
    /\ d_chat \in [Completions -> ChatIds]
    /\ d_pc = [c \in Completions |-> "query"]
    /\ d_found = [c \in Completions |-> NothingFound]
    /\ d_tags \in { {}, { NewTagId } }
    /\ d_links = {}
    /\ FilterIdle
    /\ RegistryIdle
    /\ OrchIdle
    /\ ConcIdle
    /\ TagsIdle
    /\ RequestIdle
    /\ ChatIdle

NextDb ==
    \/ \E c \in Completions : QueryTag(c)
    \/ \E c \in Completions : AppendTag(c)
    \/ \E c \in Completions : CommitCompletion(c)

SpecDb == InitDb /\ [][NextDb]_vars

(***************************************************************************)
(* Properties of the fence filter (SpecFilter)                             *)
(***************************************************************************)
\* the unfiltered text: the concatenation of the provider chunks so far
Raw == Join(response)

\* offsets of Raw at which one chunk ends and a later one begins
ChunkCuts ==
    { Len(Join(SubSeq(response, 1, k))) : k \in 1 .. Len(response) } \ { 0, Len(Raw) }

\* offsets of the emitted text at which one yielded unit ends
UnitCuts == { Len(Join(SubSeq(yielded, 1, k))) : k \in 1 .. Len(yielded) }

\* the fence spans of a text, paired from the left: <<offset of the opening
\* marker, offset just past the closing marker>>
RECURSIVE Fences(_, _)
Fences(s, from) ==
    LET st == Find(s, Marker, from) IN
    IF st = -1 THEN {}
    ELSE LET en == Find(s, Marker, st + 3) IN
         IF en = -1 THEN {}
         ELSE { << st, en + 3 >> } \cup Fences(s, en + 3)

\* every triple backtick of the text lies whole inside one chunk
NoSplitMarker ==
    \A p \in 0 .. Len(Raw) - 3 :
        OccursAt(Raw, Marker, p) => ChunkCuts \cap { p + 1, p + 2 } = {}

\* the opening and the closing marker of span f arrived in different chunks
MarkersInDifferentChunks(f) == \E q \in ChunkCuts : f[1] + 3 <= q /\ q <= f[2] - 3

\* C1: when the stream has ended, the in-order concatenation of the yielded
\* units equals the concatenation of the provider chunks.
C1_ContentPreserved ==
    (openai_client /\ pc = "done") => Join(yielded) = Raw

\* C2: when the stream ends with a non-empty buffer, the buffer is yielded
\* verbatim as the final unit.
C2_FlushAtEnd ==
    [][ (pc = "stream" /\ pc' = "done" /\ buffer # << >>)
            => yielded' = Append(yielded, buffer) ]_vars

C4_MarkerNeverSplit ==
    (openai_client /\ pc = "done") =>
        \A p \in 0 .. Len(Raw) - 3 :
            ( /\ OccursAt(Raw, Marker, p)
              /\ (p > 0 => Raw[p] # BT)
              /\ (p + 3 < Len(Raw) => Raw[p + 4] # BT)
              /\ ChunkCuts \cap { p + 1, p + 2 } # {} )
            => UnitCuts \cap { p + 1, p + 2 } = {}

(***************************************************************************)
(* Properties of the orchestrator and the relay (SpecOrch)                 *)
(***************************************************************************)
\* the fallback sentence as the adapter yields it: one character per fragment
FallbackFragments == [ i \in 1 .. Len(FallbackMessage) |-> << FallbackMessage[i] >> ]

IsPrefix(p, q) == Len(p) <= Len(q) /\ p = SubSeq(q, 1, Len(p))

\* C5: after the selected adapter has raised during iteration the request is
\* not failed: the stream goes on with the OpenAI adapter when the OpenAI
\* handle is present and with the fallback sentence otherwise.
C5_MidStreamFallback ==
    fault = "iter" =>
        /\ opc \in { "streaming", "completed" }
        /\ adapter = IF "openai" \in clients THEN "openai" ELSE "fallback"

\* C6: every request that has ended has ended without an exception and has
\* relayed at least one non-empty fragment.
C6_AlwaysSomeText ==
    opc \in { "completed", "failed" } =>
        /\ opc = "completed"
        /\ \E i \in 1 .. Len(relayed) : relayed[i] # << >>

\* C7: with no client handle at all the request is served by the fallback
\* adapter, relays the characters of the fallback sentence one per fragment
\* and in order, completes with exactly that sentence and never fails; the
\* completion call returns the fixed unavailable text.
C7_NoCredentialFallback ==
    clients = {} =>
        /\ opc # "failed" /\ fault = "none"
        /\ opc # "idle" => adapter = "fallback"
        /\ IsPrefix(relayed, FallbackFragments)
        /\ opc = "completed" => relayed = FallbackFragments
        /\ completion \in { "unset", UnavailableText }

C7_Witness ==
    /\ clients = {}
    /\ opc = "completed"
    /\ Len(relayed) = Len(FallbackMessage)
    /\ completion = UnavailableText

\* C8 as stated: whenever the handle of the resolved provider is absent, the
\* request is served by the fallback adapter and relays the fallback
\* sentence only.
C8_MissingHandleFallback ==
    (opc # "idle" /\ provider \notin clients) =>
        /\ adapter = "fallback"
        /\ IsPrefix(relayed, FallbackFragments)

\* C8 amended: whenever the handle of the resolved provider and the OpenAI
\* handle are both absent, the request is served by the fallback adapter,
\* relays the fallback sentence one character per fragment and nothing else,
\* and does not fail.
C8_MissingHandleNoOpenAI ==
    (opc # "idle" /\ provider \notin clients /\ "openai" \notin clients) =>
        /\ adapter = "fallback"
        /\ opc # "failed"
        /\ IsPrefix(relayed, FallbackFragments)
        /\ opc = "completed" => relayed = FallbackFragments

C8_Witness ==
    /\ provider = "anthropic"
    /\ clients = { "google", "mistral" }
    /\ opc = "completed"
    /\ relayed = FallbackFragments

\* the non-empty elements of a sequence of fragments, in order
RECURSIVE NonEmpty(_)
NonEmpty(fs) ==
    IF fs = << >> THEN << >>
    ELSE IF Head(fs) = << >> THEN NonEmpty(Tail(fs))
    ELSE << Head(fs) >> \o NonEmpty(Tail(fs))

\* C9: the fragments relayed for a completed provider stream are the units
\* the fence filter yields for the chunk contents the provider delivered
\* (compared on streams the filter leaves nothing of in its buffer, and
\* leaving empty fragments aside), so that a fence whose markers arrive in
\* different chunks is relayed as one fragment.
C9_RelayIsFiltered ==
    (opc = "completed" /\ adapter \in Providers /\ FilterStream(deltas).buffer = << >>) =>
        NonEmpty(relayed) = NonEmpty(FilterStream(deltas).yielded)

(***************************************************************************)
(* Properties of the model registry (SpecRegistry)                         *)
(***************************************************************************)
\* sub occurs in s, character by character
HasSub(s, sub) ==
    \E i \in 0 .. Len(s) - Len(sub) : \A k \in 1 .. Len(sub) : s[i + k] = sub[k]

\* C10: the rules are tried in order and the first that matches decides:
\* gpt or o3 gives openai whatever else the identifier contains, then claude
\* gives anthropic, then gemini gives google, then mistral, pixtral or
\* codestral gives mistral, and everything else gives openai; the result is
\* always one of the four providers.
C10_FirstRuleWins ==
    rprovider # "unset" =>
        LET r1 == HasSub(rmodel, << "g", "p", "t" >>) \/ HasSub(rmodel, << "o", "3" >>)
            r2 == HasSub(rmodel, << "c", "l", "a", "u", "d", "e" >>)
            r3 == HasSub(rmodel, << "g", "e", "m", "i", "n", "i" >>)
            r4 == \/ HasSub(rmodel, << "m", "i", "s", "t", "r", "a", "l" >>)
                  \/ HasSub(rmodel, << "p", "i", "x", "t", "r", "a", "l" >>)
                  \/ HasSub(rmodel, << "c", "o", "d", "e", "s", "t", "r", "a", "l" >>)
        IN  /\ rprovider \in Providers
            /\ r1 => rprovider = "openai"
            /\ (~r1 /\ r2) => rprovider = "anthropic"
            /\ (~r1 /\ ~r2 /\ r3) => rprovider = "google"
            /\ (~r1 /\ ~r2 /\ ~r3 /\ r4) => rprovider = "mistral"
            /\ (~r1 /\ ~r2 /\ ~r3 /\ ~r4) => rprovider = "openai"

C10_Witness ==
    /\ rprovider = "openai"
    /\ HasSub(rmodel, << "g", "p", "t" >>)
    /\ HasSub(rmodel, << "c", "l", "a", "u", "d", "e" >>)

HasGptOrO3(s) == HasSub(s, << "g", "p", "t" >>) \/ HasSub(s, << "o", "3" >>)
HasClaude(s) == HasSub(s, << "c", "l", "a", "u", "d", "e" >>)
HasGemini(s) == HasSub(s, << "g", "e", "m", "i", "n", "i" >>)
HasMistralWord(s) ==
    \/ HasSub(s, << "m", "i", "s", "t", "r", "a", "l" >>)
    \/ HasSub(s, << "p", "i", "x", "t", "r", "a", "l" >>)
    \/ HasSub(s, << "c", "o", "d", "e", "s", "t", "r", "a", "l" >>)

\* C11 as stated: every identifier containing claude resolves to anthropic,
\* every one containing gemini to google, every one containing mistral,
\* pixtral or codestral to mistral, and every other identifier to openai.
C11_KeywordAloneDecides ==
    rprovider # "unset" =>
        /\ HasClaude(rmodel) => rprovider = "anthropic"
        /\ HasGemini(rmodel) => rprovider = "google"
        /\ HasMistralWord(rmodel) => rprovider = "mistral"
        /\ (~HasClaude(rmodel) /\ ~HasGemini(rmodel) /\ ~HasMistralWord(rmodel))
               => rprovider = "openai"

\* C11 amended: anthropic is returned exactly for the identifiers that contain
\* claude and neither gpt nor o3, google exactly for those that contain gemini
\* and none of gpt, o3, claude, mistral exactly for those that contain
\* mistral, pixtral or codestral and none of gpt, o3, claude, gemini, and
\* openai for every other identifier.
C11_KeywordDecidesUnlessEarlier ==
    rprovider # "unset" =>
        /\ rprovider = "anthropic" <=> (HasClaude(rmodel) /\ ~HasGptOrO3(rmodel))
        /\ rprovider = "google" <=>
               (HasGemini(rmodel) /\ ~HasClaude(rmodel) /\ ~HasGptOrO3(rmodel))
        /\ rprovider = "mistral" <=>
               (HasMistralWord(rmodel) /\ ~HasGemini(rmodel) /\ ~HasClaude(rmodel)
                    /\ ~HasGptOrO3(rmodel))
        /\ rprovider = "openai" <=>
               (HasGptOrO3(rmodel)
                    \/ (~HasClaude(rmodel) /\ ~HasGemini(rmodel) /\ ~HasMistralWord(rmodel)))

C11_Witness ==
    /\ rprovider = "anthropic"
    /\ HasClaude(rmodel)
    /\ HasMistralWord(rmodel)

(***************************************************************************)
(* Properties of the orchestrator and the relay, continued (SpecOrch)      *)
(***************************************************************************)
\* C12 as stated: the native model of an identifier of the table is the
\* table's value, an identifier that is not in the table reaches the adapter
\* unchanged, and an unknown identifier with the OpenAI handle present is
\* streamed by the OpenAI adapter under that identifier, without an error.
C12_UnmappedPassedUnchanged ==
    opc # "idle" =>
        /\ model \in DOMAIN model_mappings => actual_model = model_mappings[model]
        /\ (model \notin DOMAIN model_mappings /\ adapter \in Providers) => native = model
        /\ (model = S_unknown_xyz /\ "openai" \in clients) =>
               (adapter = "openai" /\ native = model)

\* C12 amended: the native model of an identifier of the table is the table's
\* value and that of any other identifier is the identifier itself; the
\* adapter of the resolved provider, used when its handle is present, is
\* called with that native model; an unknown identifier with the OpenAI
\* handle present is streamed by the OpenAI adapter under that identifier.
C12_NativeModelToResolvedAdapter ==
    opc # "idle" =>
        /\ model \in DOMAIN model_mappings => actual_model = model_mappings[model]
        /\ model \notin DOMAIN model_mappings => actual_model = model
        /\ provider \in clients => (adapter = provider /\ native = actual_model)
        /\ (model = S_unknown_xyz /\ "openai" \in clients) =>
               (adapter = "openai" /\ native = S_unknown_xyz)

C12_Witness ==
    /\ model = S_unknown_xyz
    /\ "openai" \in clients
    /\ adapter = "openai"
    /\ native = S_unknown_xyz
    /\ opc = "completed"
    /\ Len(relayed) > 0

\* C13: after the creation of the streaming request has raised, the request
\* is not failed: it is served by the OpenAI adapter or the fallback
\* generator.
C13_CreateFailureFallsBack ==
    fault = "create" =>
        /\ opc \in { "streaming", "completed" }
        /\ adapter \in { "openai", "fallback" }

\* the request has ended
Ended == opc \in { "completed", "failed", "abandoned" }

\* C14: a request makes at most one streaming request to a provider, the
\* adapter chosen at dispatch is never replaced, a provider failure ends the
\* stream for good, and every request ends.
C14_NoRetryAndTerminates ==
    /\ [](attempts <= 1)
    /\ [](fault # "none" => opc = "failed")
    /\ [][ /\ opc # "idle" => adapter' = adapter
           /\ opc = "failed" =>
                  (opc' = "failed" /\ attempts' = attempts /\ relayed' = relayed) ]_vars
    /\ <>Ended

C14_Witness ==
    /\ fault = "iter"
    /\ opc = "failed"
    /\ attempts = 1
    /\ adapter = "openai"
    /\ provider = "anthropic"
    /\ Len(relayed) = 1

\* the text fragments among chunk contents: a None content carries no text
RECURSIVE NonEmptyTexts(_)
NonEmptyTexts(cs) ==
    IF cs = << >> THEN << >>
    ELSE IF Head(cs) = NoneContent \/ Head(cs) = << >> THEN NonEmptyTexts(Tail(cs))
    ELSE << Head(cs) >> \o NonEmptyTexts(Tail(cs))

\* C15: at every moment of a provider stream the non-empty fragments relayed
\* are exactly the non-empty texts the provider has delivered so far, in the
\* provider's order (none held back, merged, reordered or dropped), and one
\* data event was yielded per relayed fragment, in the same order.
C15_OrderPreservedNoBuffering ==
    adapter \in Providers =>
        /\ NonEmpty(relayed) = NonEmptyTexts(deltas)
        /\ Len(events) >= Len(relayed)
        /\ \A i \in 1 .. Len(relayed) : events[i] = DataEvent(relayed[i])

C15_Witness ==
    /\ adapter = "mistral"
    /\ opc = "streaming"
    /\ deltas = << << "a" >>, Marker >>
    /\ relayed = << << "a" >>, Marker >>

\* C16: a completed response is one data event per fragment followed by the
\* end event, and the end event is equal to no event yielded for a fragment.
C16_EndMarkerDistinct ==
    /\ opc = "completed" =>
           /\ Len(events) = Len(relayed) + 1
           /\ events[Len(events)] = DoneEvent
    /\ \A i \in 1 .. Len(events) :
           events[i] = DoneEvent => (opc = "completed" /\ i = Len(events))

\* C18: as long as the request has not completed, and so after a failure or
\* after the consumer has gone, no assistant message is stored and the
\* chat's title and tags are as they were.
C18_NothingPersistedUnlessCompleted ==
    opc # "completed" =>
        /\ stored = << >>
        /\ title = "None"
        /\ chat_tags = << >>

C18_Witness ==
    /\ opc = "abandoned"
    /\ nmessages = 1
    /\ Len(relayed) = 2
    /\ Len(deltas) = 2

\* C19: after the consumer has stopped iterating, no provider stream opened
\* for the request is open.
C19_StreamClosedOnAbandon ==
    opc = "abandoned" => ~stream_open

(***************************************************************************)
(* Properties of concurrent requests (SpecConc)                            *)
(***************************************************************************)
\* the generator a request of the given kind and model gets when it is the
\* only request of the process
SoloDecision(kind, m) ==
    IF kind = "chat_handler"
    THEN (IF sh_openai_client THEN "openai" ELSE "fallback")
    ELSE Dispatch(get_provider_for_model(m), sh_clients)

\* the fragments an adapter alone yields for the chunk contents cs
RECURSIVE SoloAdapterYield(_, _)
SoloAdapterYield(a, cs) ==
    IF cs = << >> THEN << >>
    ELSE (IF AdapterYields(a, Head(cs)) THEN << Head(cs) >> ELSE << >>)
         \o SoloAdapterYield(a, Tail(cs))

\* the characters of message msg, one unit each, up to the n-th
CharsOf(msg, n) == [i \in 1 .. n |-> << msg[i] >>]

\* buffer and fragments of request s when it runs alone on the chunks it has
\* received and has made as many fallback yields as it has
SoloRun(s) ==
    LET a == SoloDecision(s_kind[s], s_model[s]) IN
    IF a = "fallback"
    THEN [ buffer |-> << >>,
           yielded |-> CharsOf(SessionFallbackMessage(s), Len(s_yielded[s])) ]
    ELSE IF s_kind[s] = "chat_handler"
    THEN FilterStream(s_response[s])
    ELSE [ buffer |-> << >>, yielded |-> SoloAdapterYield(a, s_response[s]) ]

\* C17: in every interleaving of two concurrent requests, each request's
\* fallback decision, fence-filter buffer and emitted fragments are those of
\* the same request running alone on the same provider chunks
C17_SessionsIsolated ==
    \A s \in Sessions :
        s_pc[s] # "start" =>
            /\ s_adapter[s] = SoloDecision(s_kind[s], s_model[s])
            /\ Len(s_yielded[s]) <= Len(SessionFallbackMessage(s)) \/ s_adapter[s] # "fallback"
            /\ s_buffer[s] = SoloRun(s).buffer
            /\ s_yielded[s] = SoloRun(s).yielded

\* both requests are mid-stream in the fence filter, one holding an open
\* fence in its buffer while the other has emitted plain text, and the
\* first received its second chunk after the other had started
C17_Witness ==
    /\ s_kind[1] = "chat_handler" /\ s_kind[2] = "chat_handler"
    /\ s_pc[1] = "stream" /\ s_pc[2] = "stream"
    /\ s_response[1] = << Marker, << "a" >> >>
    /\ s_buffer[1] = Marker \o << "a" >>
    /\ s_response[2] = << << "a" >> >>
    /\ s_buffer[2] = << >>
    /\ s_yielded[2] = << << "a" >> >>

(***************************************************************************)
(* Properties of suggest_tags (SpecTags)                                   *)
(***************************************************************************)
\* some user-role message of msgs has word in its lower-cased content
UserSays(msgs, word) ==
    \E i \in 1 .. Len(msgs) :
        msgs[i].role = "user" /\ Contains(Lower(msgs[i].content), word)

\* the keyword-derived set: one tag per vocabulary rule met by a user
\* message, general when no rule is met
ExpectedTags(msgs) ==
    LET found ==
            { tag \in { K_python, K_javascript, K_coding, K_data, K_web } :
                \/ tag = K_python /\ UserSays(msgs, K_python)
                \/ tag = K_javascript /\ (UserSays(msgs, K_javascript) \/ UserSays(msgs, K_js))
                \/ tag = K_coding /\ (UserSays(msgs, K_code) \/ UserSays(msgs, K_programming))
                \/ tag = K_data /\ UserSays(msgs, K_data)
                \/ tag = K_web /\ UserSays(msgs, K_web) }
    IN  IF found = {} THEN { K_general } ELSE found

\* the call returned without a usable provider: no handle, or the call raised
NoProviderResult ==
    t_pc = "done" /\ (~t_client \/ t_path = "except")

\* C20 as stated: with no provider available, or when the tagging call
\* raises, suggest_tags returns the keyword-derived set of the user messages
\* for any message list, general when no keyword matches
C20_FallbackOnAnyList ==
    NoProviderResult => t_result = ExpectedTags(t_messages)

\* C20 amended: the same for any non-empty message list; the empty list
\* gives the empty set
C20_FallbackOnNonEmptyList ==
    /\ (NoProviderResult /\ t_messages # << >>) => t_result = ExpectedTags(t_messages)
    /\ (t_pc = "done" /\ t_messages = << >>) => t_result = {}

\* a conversation whose user message says Python and whose assistant message
\* says web data: only python is returned
C20_Witness ==
    /\ t_pc = "done"
    /\ ~t_client
    /\ t_messages = << [role |-> "user", content |-> << "P", "y", "t", "h", "o", "n" >>],
                       [role |-> "assistant", content |-> << "w", "e", "b", " ", "d", "a", "t", "a" >>] >>
    /\ t_result = { K_python }

(***************************************************************************)
(* Properties of the adapters' requests (SpecRequest)                      *)
(***************************************************************************)
HasSystemMessage(msgs) == \E i \in 1 .. Len(msgs) : msgs[i].role = "system"

\* the request carries the fence instruction as a system instruction
InstructionSent(req) ==
    \/ req.system = FenceInstruction
    \/ \E i \in 1 .. Len(req.messages) :
           req.messages[i].role = "system" /\ req.messages[i].content = FenceInstruction

OtherMessages(msgs) ==
    LET NotSystem(m) == m.role # "system" IN SelectSeq(msgs, NotSystem)

\* the texts ts occur in text, one after the other, from position from on
RECURSIVE OccurInOrder(_, _, _)
OccurInOrder(text, ts, from) ==
    IF ts = << >> THEN TRUE
    ELSE LET i == Find(text, Head(ts), from)
         IN  i # -1 /\ OccurInOrder(text, Tail(ts), i + Len(Head(ts)))

\* C21: every adapter sends the fence instruction exactly when the caller's
\* list has no system message, and forwards the caller's other messages in
\* their order with unchanged content
C21_InstructionIffNoSystem ==
    q_pc = "sent" =>
        /\ InstructionSent(q_sent) <=> ~HasSystemMessage(q_messages)
        /\ IF q_adapter = "google"
           THEN LET others == OtherMessages(q_messages)
                IN  OccurInOrder(q_sent.prompt,
                                 [i \in 1 .. Len(others) |-> others[i].content], 0)
           ELSE OtherMessages(q_sent.messages) = OtherMessages(q_messages)

(***************************************************************************)
(* Properties of the fence filter, continued (SpecFilter)                  *)
(***************************************************************************)
\* offset of the first marker of the buffer, -1 when it has none
BufferStart == Find(buffer, Marker, 0)

\* the buffer holds an opening marker and no closing marker after it
BufferHoldsOpenFence ==
    BufferStart # -1 /\ Find(buffer, Marker, BufferStart + 3) = -1

\* C22: whenever the processing of a chunk has left an opening marker without
\* a closing marker in the buffer, the buffer begins with that marker: the
\* plain text before it was yielded during that processing.
C22_PrefixFlushed ==
    (openai_client /\ pc = "stream" /\ response # << >> /\ BufferHoldsOpenFence)
        => (BufferStart = 0 /\ Join(yielded) \o buffer = Raw)

\* offset just past the last complete fence of the text, 0 when it has none
EndOfFences(s) ==
    LET fs == Fences(s, 0)
    IN  IF fs = {} THEN 0
        ELSE (CHOOSE f \in fs : \A g \in fs : g[2] <= f[2])[2]

\* offset at which the last chunk received begins
LastChunkStart == Len(Join(SubSeq(response, 1, Len(response) - 1)))

\* the last chunk received holds the closing marker of a fence and, after
\* it, the opening marker of a fence that is not closed yet
ClosesOneOpensAnother ==
    /\ response # << >>
    /\ Fences(Raw, 0) # {}
    /\ EndOfFences(Raw) - 3 >= LastChunkStart
    /\ Find(Raw, Marker, EndOfFences(Raw)) # -1

C29_BufferInvariant ==
    (openai_client /\ pc \in { "stream", "done", "raised" }) =>
        \/ buffer = << >>
        \/ BufferHoldsOpenFence

C29_Witness ==
    /\ pc = "stream"
    /\ response = << << "a" >>, ExampleChunk1 >>
    /\ yielded = << << "a" >> >>
    /\ buffer = ExampleChunk1

(***************************************************************************)
(* Properties of the non-streaming calls and of MODEL_MAPPING (SpecChat)   *)
(***************************************************************************)
\* the title the claim describes: New Chat without a user message, else the
\* first user message, cut to 40 characters and followed by ... when longer
ExpectedTitle(msgs) ==
    IF \A i \in 1 .. Len(msgs) : msgs[i].role # "user" THEN NewChatChars
    ELSE LET k == CHOOSE i \in 1 .. Len(msgs) :
                      msgs[i].role = "user" /\ \A j \in 1 .. i - 1 : msgs[j].role # "user"
             c == msgs[k].content
         IN  IF Len(c) <= 40 THEN c ELSE SubSeq(c, 1, 40) \o << ".", ".", "." >>

\* C23: no non-streaming call raises; get_ai_response returns its fixed
\* text when the handle is absent and its fixed error text when the call
\* raises; generate_chat_summary returns the fallback title in both cases.
C23_NonStreamingNeverRaises ==
    /\ n_pc # "raised"
    /\ (n_pc = "done" /\ n_call = "get_ai_response") =>
           /\ ~n_client => n_result = UnavailableChars
           /\ n_path = "except" => n_result = ErrorChars
    /\ (n_pc = "done" /\ n_call = "generate_chat_summary"
            /\ (~n_client \/ n_path = "except")) => n_result = ExpectedTitle(n_messages)

\* the summary call raised with a first user message of 41 characters
C23_Witness ==
    /\ n_pc = "done"
    /\ n_call = "generate_chat_summary"
    /\ n_client
    /\ n_path = "except"
    /\ n_messages = << [role |-> "assistant", content |-> ShortText],
                       [role |-> "user", content |-> Text41] >>
    /\ n_result = [i \in 1 .. 40 |-> "a"] \o << ".", ".", "." >>

\* C25: the table has the five entries listed and no other; every provider
\* request of get_ai_response and of the stream carries the table's value
\* for a mapped identifier and gpt-4o for any other.
C25_ModelMapping ==
    /\ DOMAIN MODEL_MAPPING =
           { S_gpt_4o, S_gpt_4o_mini, S_gpt_4, S_gpt_4_turbo, S_gpt_3_5_turbo }
    /\ MODEL_MAPPING[S_gpt_4o] = << "g", "p", "t", "-", "4" >>
    /\ MODEL_MAPPING[S_gpt_4o_mini] = S_gpt_3_5_turbo
    /\ MODEL_MAPPING[S_gpt_4] = << "g", "p", "t", "-", "4" >>
    /\ MODEL_MAPPING[S_gpt_4_turbo] = S_gpt_4_1106_preview
    /\ MODEL_MAPPING[S_gpt_3_5_turbo] = S_gpt_3_5_turbo
    /\ (n_pc = "done" /\ n_call # "generate_chat_summary" /\ n_native # NoneContent) =>
           n_native = (CASE n_model = S_gpt_4o -> << "g", "p", "t", "-", "4" >>
                         [] n_model = S_gpt_4o_mini -> S_gpt_3_5_turbo
                         [] n_model = S_gpt_4 -> << "g", "p", "t", "-", "4" >>
                         [] n_model = S_gpt_4_turbo -> S_gpt_4_1106_preview
                         [] n_model = S_gpt_3_5_turbo -> S_gpt_3_5_turbo
                         [] OTHER -> << "g", "p", "t", "-", "4", "o" >>)
    /\ (n_pc = "done" /\ n_call # "generate_chat_summary" /\ n_client) =>
           n_native # NoneContent

\* a streaming request made with an identifier the table does not have
C25_Witness ==
    /\ n_pc = "done"
    /\ n_call = "get_ai_response_stream"
    /\ n_model = S_unknown_xyz
    /\ n_native = S_gpt_4o

(***************************************************************************)
(* Properties of the request life cycle, dispatch and storage (SpecOrch)   *)
(***************************************************************************)
\* the moves of a request: selection, the first next() on the generator
\* (which creates the provider request and may fail there), iteration up to
\* exhaustion or failure, and the consumer going away
LifeCycleMoves ==
    { << "idle", "selected" >>, << "selected", "streaming" >>,
      << "selected", "failed" >>, << "streaming", "completed" >>,
      << "streaming", "failed" >>, << "streaming", "abandoned" >> }

C27_DispatchByHandle ==
    opc # "idle" =>
        /\ provider = get_provider_for_model(model)
        /\ adapter = provider <=> provider \in clients
        /\ provider \in clients => native = actual_model
        /\ (provider \notin clients /\ "openai" \in clients) =>
               (adapter = "openai" /\ native = << "g", "p", "t", "-", "4", "o" >>)
        /\ adapter = "fallback" <=> (provider \notin clients /\ "openai" \notin clients)

C27_Witness ==
    /\ provider = "google"
    /\ model = S_gemini_2_5_pro
    /\ clients = { "openai", "mistral" }
    /\ adapter = "openai"
    /\ native = S_gpt_4o
    /\ opc = "streaming"
    /\ Len(relayed) = 1

\* C28: when a stream has completed, exactly one assistant message is stored,
\* its content is the concatenation of the fragments relayed, in order, and
\* the end event has not been emitted in any state in which the message is
\* not stored.
C28_StoredOnCompletion ==
    /\ opc = "completed" =>
           /\ Len(stored) = 1
           /\ stored[1] = Join(relayed)
           /\ Len(events) = Len(relayed) + 1
    /\ Len(events) > Len(relayed) => (Len(stored) = 1 /\ stored[1] = Join(relayed))

C28_Witness ==
    /\ opc = "completed"
    /\ adapter = "openai"
    /\ relayed = << << >>, Marker >>
    /\ stored = << Marker >>

(***************************************************************************)
(* Properties of the tag get-or-create (SpecDb)                            *)
(***************************************************************************)
\* C30: in every interleaving of concurrent completions that suggest the same
\* tag name, at most one Tag of the name exists, every chat is linked to it
\* at most once, and no completion fails.
C30_TagGetOrCreateRaceFree ==
    /\ Cardinality(d_tags) <= 1
    /\ \A ch \in ChatIds : Cardinality({ l \in d_links : l[1] = ch }) <= 1
    /\ \A c \in Completions : d_pc[c] # "failed"

====
